---- MODULE Spec2Model ----
(***************************************************************************)
(* Outcome classifier of the football predictions serverless functions     *)
(* (netlify/functions/predictions.js and its extended duplicate).          *)
(*                                                                         *)
(* JavaScript values are modelled as tagged records:                       *)
(*   undefined, null, strings (sequences of one-character strings),        *)
(*   numbers (NaN, or the decimal n/d with d a power of ten) and objects   *)
(*   (a function from property names to values).                           *)
(* A call either returns a value or throws; a try/catch maps a throw of    *)
(* its body to the catch's return value.                                   *)
(***************************************************************************)
EXTENDS Integers, Sequences, FiniteSets

VARIABLES pc, fn, args, ret

(* one invocation of the serverless handler: the module that runs, the     *)
(* event, the handler's position, what the upstream answers, the fixtures  *)
(* kept, each fetchPrediction call's position, locals and result, the      *)
(* number of prediction requests sent, and the handler's response          *)
VARIABLES variant, event, hpc, upstream, limitedFixtures, fpc, locals, results,
          requests, response

(* the PIN-protected frontend: the application state object, the PIN       *)
(* buffer, the active screen, the pending verifyPin timers, the registered *)
(* date-change listeners, the loadData calls in flight; sessionInits and   *)
(* sessionVerified record, since the last logout, the runs of initApp and  *)
(* whether verifyPin ran on the correct PIN                                *)
VARIABLES state, currentPin, activeScreen, timers, dateListeners, loads,
          sessionInits, sessionVerified

(* the React component: its state, the fetchPredictions call in flight,    *)
(* and how the last call settled                                           *)
VARIABLES component, fetching, settled

cvars == <<pc, fn, args, ret>>

fvars == <<state, currentPin, activeScreen, timers, dateListeners, loads,
           sessionInits, sessionVerified>>

rvars == <<component, fetching, settled>>

hvars == <<variant, event, hpc, upstream, limitedFixtures, fpc, locals, results,
           requests, response>>

vars == <<pc, fn, args, ret, variant, event, hpc, upstream, limitedFixtures, fpc,
          locals, results, requests, response, state, currentPin, activeScreen,
          timers, dateListeners, loads, sessionInits, sessionVerified, component,
          fetching, settled>>

---------------------------------------------------------------------------
(* JavaScript values *)

Undefined == [t |-> "undefined"]

Null == [t |-> "null"]

Str(s) == [t |-> "string", s |-> s]

Num(n, d) == [t |-> "number", nan |-> FALSE, n |-> n, d |-> d]

IntNum(n) == Num(n, 1)

NaN == [t |-> "number", nan |-> TRUE, n |-> 0, d |-> 1]

Obj(f) == [t |-> "object", f |-> f]

EmptyObj == Obj(<<>>)

IsString(v) == v.t = "string"

IsNumber(v) == v.t = "number"

IsNullish(v) == v.t \in {"undefined", "null"}

(* completion of a call *)
Throw == [thrown |-> TRUE]

Return(v) == [thrown |-> FALSE, value |-> v]

---------------------------------------------------------------------------
(* Characters and conversions *)

Digits == {"0", "1", "2", "3", "4", "5", "6", "7", "8", "9"}

WhiteSpace == {" "}

DigitVal(c) ==
  CASE c = "0" -> 0 [] c = "1" -> 1 [] c = "2" -> 2 [] c = "3" -> 3
    [] c = "4" -> 4 [] c = "5" -> 5 [] c = "6" -> 6 [] c = "7" -> 7
    [] c = "8" -> 8 [] c = "9" -> 9

DigitChar(k) ==
  CASE k = 0 -> "0" [] k = 1 -> "1" [] k = 2 -> "2" [] k = 3 -> "3"
    [] k = 4 -> "4" [] k = 5 -> "5" [] k = 6 -> "6" [] k = 7 -> "7"
    [] k = 8 -> "8" [] k = 9 -> "9"

RECURSIVE TrimStart(_)
TrimStart(s) ==
  IF s # <<>> /\ Head(s) \in WhiteSpace THEN TrimStart(Tail(s)) ELSE s

RECURSIVE DigitPrefix(_)
DigitPrefix(s) ==
  IF s # <<>> /\ Head(s) \in Digits
    THEN <<Head(s)>> \o DigitPrefix(Tail(s))
    ELSE <<>>

RECURSIVE DigitsToNat(_)
DigitsToNat(ds) ==
  IF ds = <<>> THEN 0
  ELSE DigitsToNat(SubSeq(ds, 1, Len(ds) - 1)) * 10 + DigitVal(ds[Len(ds)])

RECURSIVE NatToDigits(_)
NatToDigits(k) ==
  IF k < 10 THEN <<DigitChar(k)>>
  ELSE NatToDigits(k \div 10) \o <<DigitChar(k % 10)>>

RECURSIVE Pow10(_)
Pow10(k) == IF k = 0 THEN 1 ELSE 10 * Pow10(k - 1)

HasSign(s) == s # <<>> /\ Head(s) \in {"+", "-"}

SignOf(s) == IF s # <<>> /\ Head(s) = "-" THEN -1 ELSE 1

(* parseInt(string) without radix, decimal input: leading white space, an  *)
(* optional sign, then the longest prefix of digits; NaN when there is no  *)
(* digit.  It never throws.                                                *)
parseInt(s) ==
  LET t  == TrimStart(s)
      u  == IF HasSign(t) THEN Tail(t) ELSE t
      ds == DigitPrefix(u)
  IN  IF ds = <<>> THEN NaN ELSE IntNum(SignOf(t) * DigitsToNat(ds))

(* String.prototype.replace(pattern, '') with a string pattern: the first  *)
(* occurrence of the one-character pattern is removed.                     *)
RECURSIVE ReplaceFirst(_, _)
ReplaceFirst(s, c) ==
  IF s = <<>> THEN <<>>
  ELSE IF Head(s) = c THEN Tail(s)
  ELSE <<Head(s)>> \o ReplaceFirst(Tail(s), c)

(* String.prototype.includes *)
Includes(s, sub) ==
  \E i \in 0..(Len(s) - Len(sub)) : SubSeq(s, i + 1, i + Len(sub)) = sub

(* Number -> string of a decimal n/d (d a power of ten, n/d in lowest      *)
(* decimal form): "NaN", the sign, the integer part and the fraction.      *)
RECURSIVE FracDigits(_, _)
FracDigits(r, d) ==
  IF d = 1 THEN <<>>
  ELSE <<DigitChar(r \div (d \div 10))>> \o FracDigits(r % (d \div 10), d \div 10)

NumToString(x) ==
  IF x.nan THEN <<"N", "a", "N">>
  ELSE LET a == IF x.n < 0 THEN -x.n ELSE x.n
           body == NatToDigits(a \div x.d)
                     \o (IF x.d = 1 THEN <<>> ELSE <<".">> \o FracDigits(a % x.d, x.d))
       IN  IF x.n < 0 THEN <<"-">> \o body ELSE body

(* ToString, as applied by String(v) and by template literals *)
ToString(v) ==
  CASE v.t = "string"    -> v.s
    [] v.t = "number"    -> NumToString(v)
    [] v.t = "undefined" -> <<"u", "n", "d", "e", "f", "i", "n", "e", "d">>
    [] v.t = "null"      -> <<"n", "u", "l", "l">>
    [] v.t = "object"    -> <<"[", "o", "b", "j", "e", "c", "t", " ",
                              "O", "b", "j", "e", "c", "t", "]">>

(* parseFloat: ToString of the argument, leading white space, an optional  *)
(* sign, digits, an optional fraction; NaN when no digit starts it.        *)
(* (Inputs of the model carry no exponent and no "Infinity".)              *)
parseFloatStr(s) ==
  LET t  == TrimStart(s)
      u  == IF HasSign(t) THEN Tail(t) ELSE t
      ip == DigitPrefix(u)
      r  == SubSeq(u, Len(ip) + 1, Len(u))
      fp == IF r # <<>> /\ Head(r) = "." THEN DigitPrefix(Tail(r)) ELSE <<>>
  IN  IF ip = <<>> /\ fp = <<>> THEN NaN
      ELSE Num(SignOf(t) * (DigitsToNat(ip) * Pow10(Len(fp)) + DigitsToNat(fp)),
               Pow10(Len(fp)))

parseFloat(v) == IF IsNumber(v) THEN v ELSE parseFloatStr(ToString(v))

(* ToBoolean *)
Truthy(v) ==
  CASE v.t = "string"    -> v.s # <<>>
    [] v.t = "number"    -> ~v.nan /\ v.n # 0
    [] v.t = "undefined" -> FALSE
    [] v.t = "null"      -> FALSE
    [] v.t = "object"    -> TRUE

(* a || b *)
OrElse(a, b) == IF Truthy(a) THEN a ELSE b

(* v?.k : undefined on undefined/null, on a primitive and on a missing key *)
Get(v, k) ==
  IF v.t = "object" /\ k \in DOMAIN v.f THEN v.f[k] ELSE Undefined

RECURSIVE GetPath(_, _)
GetPath(v, path) ==
  IF path = <<>> THEN v ELSE GetPath(Get(v, Head(path)), Tail(path))

(* numeric comparison and arithmetic; every comparison with NaN is false *)
Ge(x, y) == ~x.nan /\ ~y.nan /\ x.n * y.d >= y.n * x.d

Le(x, y) == Ge(y, x)

Gt(x, y) == ~x.nan /\ ~y.nan /\ x.n * y.d > y.n * x.d

Lt(x, y) == Gt(y, x)

(* Math.max / Math.min: NaN when an argument is NaN *)
MathMax(x, y) == IF x.nan \/ y.nan THEN NaN ELSE IF Ge(x, y) THEN x ELSE y

MathMin(x, y) == IF x.nan \/ y.nan THEN NaN ELSE IF Le(x, y) THEN x ELSE y

(* Math.round: the integer nearest to x, halves towards +infinity *)
MathRound(x) == IF x.nan THEN NaN ELSE IntNum((2 * x.n + x.d) \div (2 * x.d))

Plus1(x) == IF x.nan THEN NaN ELSE Num(x.n + x.d, x.d)

---------------------------------------------------------------------------
(* String literals of the classifier *)

P1 == <<"1">>

P2 == <<"2">>

PX == <<"X">>

P1X == <<"1", "X">>

PX2 == <<"X", "2">>

Gagne == <<" ", "g", "a", "g", "n", "e">>

DC == <<"D", "C", " ">>

MatchNul == <<"M", "a", "t", "c", "h", " ", "N", "u", "l">>

MatchNulProbable == MatchNul \o <<" ", "p", "r", "o", "b", "a", "b", "l", "e">>

bigClubs ==
  << <<"A", "l", " ", "A", "h", "l", "y">>,
     <<"Z", "a", "m", "a", "l", "e", "k">>,
     <<"Z", "a", "m", "a", "l", "e", "k", " ", "S", "C">>,
     <<"P", "y", "r", "a", "m", "i", "d", "s", " ", "F", "C">> >>

(* mutant of Pred: the two fields swapped *)
PredSwapped(p, text) == [prediction |-> text, text |-> p]

(* { prediction, text } *)
Pred(p, text) == [prediction |-> p, text |-> text]

---------------------------------------------------------------------------
(* getConfidence(homePct, awayPct, drawPct) *)

(* x.replace('%', '') then parseInt: a TypeError when x is not a string *)
ParsePct(x) ==
  IF IsString(x) THEN Return(parseInt(ReplaceFirst(x.s, "%"))) ELSE Throw

(* mutants of Tier: a threshold compared strictly *)
TierStrict50(maxProb) ==
  IF Gt(maxProb, IntNum(50)) THEN 4
  ELSE IF Ge(maxProb, IntNum(45)) THEN 3
  ELSE 2

TierStrict45(maxProb) ==
  IF Ge(maxProb, IntNum(50)) THEN 4
  ELSE IF Gt(maxProb, IntNum(45)) THEN 3
  ELSE 2

(* the tier of the largest percentage *)
Tier(maxProb) ==
  IF Ge(maxProb, IntNum(50)) THEN 4
  ELSE IF Ge(maxProb, IntNum(45)) THEN 3
  ELSE 2

getConfidence(homePct, awayPct, drawPct) ==
  LET h == ParsePct(homePct)
      a == ParsePct(awayPct)
      d == ParsePct(drawPct)
  IN  IF h.thrown \/ a.thrown \/ d.thrown THEN 2
      ELSE Tier(MathMax(MathMax(h.value, a.value), d.value))

---------------------------------------------------------------------------
(* determinePrediction(homePct, awayPct, drawPct, homeName, awayName) *)

(* mutant of Rule1: the home threshold compared strictly *)
Rule1Strict(home, away) == Gt(home, IntNum(45)) /\ Le(away, IntNum(10))

(* mutant of Rule3: it requires the home side to lead *)
Rule3Lead(home, draw) == Ge(home, IntNum(35)) /\ Ge(draw, IntNum(35)) /\ Gt(home, draw)

(* mutant of IsBigClub: equality instead of containment *)
IsBigClubExact(name) == \E i \in DOMAIN bigClubs : name = bigClubs[i]

(* the conditions of the if / else-if cascade, in source order *)
Rule1(home, away) == Ge(home, IntNum(45)) /\ Le(away, IntNum(10))

Rule2(home, away) == Ge(away, IntNum(45)) /\ Le(home, IntNum(10))

Rule3(home, draw) == Ge(home, IntNum(35)) /\ Ge(draw, IntNum(35))

Rule4(away, draw) == Ge(away, IntNum(35)) /\ Ge(draw, IntNum(35))

(* mutant of Rule5: draw > 40 *)
Rule5Strict(draw) == Gt(draw, IntNum(40))

Rule5(draw) == Ge(draw, IntNum(40))

(* mutant of Rule6Home: home >= away *)
Rule6HomeOrLevel(home, away) == Ge(home, away)

(* the test of the last branch: home > away *)
Rule6Home(home, away) == Gt(home, away)

(* bigClubs.some(club => homeName.includes(club)), homeName a string *)
IsBigClub(name) == \E i \in DOMAIN bigClubs : Includes(name, bigClubs[i])

determinePrediction(homePct, awayPct, drawPct, homeName, awayName) ==
  LET h == ParsePct(homePct)
      a == ParsePct(awayPct)
      d == ParsePct(drawPct)
      caught == Pred(PX, MatchNul)
  IN  IF h.thrown \/ a.thrown \/ d.thrown THEN caught
      ELSE LET home == h.value
               away == a.value
               draw == d.value
           IN  IF Rule1(home, away)
                 THEN Pred(P1, ToString(homeName) \o Gagne)
               ELSE IF Rule2(home, away)
                 THEN IF ~IsString(homeName) THEN caught
                      ELSE IF IsBigClub(homeName.s)
                        THEN Pred(P1X, DC \o ToString(homeName))
                      ELSE Pred(P2, ToString(awayName) \o Gagne)
               ELSE IF Rule3(home, draw)
                 THEN Pred(P1X, DC \o ToString(homeName))
               ELSE IF Rule4(away, draw)
                 THEN Pred(PX2, DC \o ToString(awayName))
               ELSE IF Rule5(draw)
                 THEN Pred(PX, MatchNulProbable)
               ELSE IF Rule6Home(home, away)
                 THEN Pred(P1X, DC \o ToString(homeName))
               ELSE Pred(PX2, DC \o ToString(awayName))

---------------------------------------------------------------------------
(* determineOverUnder(goalsHome, goalsAway, advice) *)

Over25 == <<"O", "v", "e", "r", " ", "2", ".", "5">>

Under35 == <<"U", "n", "d", "e", "r", " ", "3", ".", "5">>

Under25 == <<"U", "n", "d", "e", "r", " ", "2", ".", "5">>

(* mutant of GoalsLabel: only the home side is searched for "3.5" *)
GoalsLabelHomeOnly(goalsHome, goalsAway) ==
  IF Truthy(goalsHome) /\ Truthy(goalsAway)
    THEN IF Includes(ToString(goalsHome), <<"3", ".", "5">>)
           THEN Return(Str(<<"O", "v", "e", "r", " ", "2", ".", "5">>))
         ELSE IF Includes(ToString(goalsHome), <<"2", ".", "5">>)
              \/ Includes(ToString(goalsAway), <<"2", ".", "5">>)
           THEN Return(Str(<<"U", "n", "d", "e", "r", " ", "3", ".", "5">>))
         ELSE Return(Undefined)
    ELSE Return(Undefined)

(* the try block: a label, or no return (it falls through to the advice).  *)
(* String(x).includes never throws on the values modelled.                 *)
GoalsLabel(goalsHome, goalsAway) ==
  IF Truthy(goalsHome) /\ Truthy(goalsAway)
    THEN IF Includes(ToString(goalsHome), <<"3", ".", "5">>)
              \/ Includes(ToString(goalsAway), <<"3", ".", "5">>)
           THEN Return(Str(Over25))
         ELSE IF Includes(ToString(goalsHome), <<"2", ".", "5">>)
              \/ Includes(ToString(goalsAway), <<"2", ".", "5">>)
           THEN Return(Str(Under35))
         ELSE Return(Undefined)
    ELSE Return(Undefined)

(* the advice block, outside the try: advice.includes is a TypeError when  *)
(* advice is truthy and not a string                                       *)
AdviceLabel(advice) ==
  IF Truthy(advice)
    THEN IF ~IsString(advice) THEN Throw
         ELSE IF Includes(advice.s, <<"+", "2", ".", "5">>)
                 \/ Includes(advice.s, <<"+", "3", ".", "5">>)
           THEN Return(Str(Over25))
         ELSE IF Includes(advice.s, <<"-", "2", ".", "5">>)
                 \/ Includes(advice.s, <<"-", "3", ".", "5">>)
           THEN Return(Str(Under25))
         ELSE Return(Str(Under25))
    ELSE Return(Str(Under25))

determineOverUnder(goalsHome, goalsAway, advice) ==
  LET g == GoalsLabel(goalsHome, goalsAway)
  IN  IF g.value.t # "undefined" THEN g ELSE AdviceLabel(advice)

---------------------------------------------------------------------------
(* determineBTTS(teams, comparison) *)

Oui == <<"O", "u", "i">>

Non == <<"N", "o", "n">>

(* teams?.<side>?.league?.goals?.<dir>?.average?.<split> *)
AvgPath(side, dir, split) == <<side, "league", "goals", dir, "average", split>>

(* mutant of BttsLabel: the first threshold compared with >= *)
BttsLabelInclusive(homeGoalsFor, awayGoalsFor, homeGoalsAgainst, awayGoalsAgainst) ==
  IF /\ Ge(homeGoalsFor, Num(8, 10)) /\ Ge(awayGoalsFor, Num(8, 10))
     /\ Ge(homeGoalsAgainst, Num(8, 10)) /\ Ge(awayGoalsAgainst, Num(8, 10))
    THEN Str(Oui)
  ELSE IF Lt(homeGoalsAgainst, Num(5, 10)) \/ Lt(awayGoalsAgainst, Num(5, 10))
    THEN Str(Non)
  ELSE IF Gt(homeGoalsFor, IntNum(1)) /\ Gt(awayGoalsFor, IntNum(1))
    THEN Str(Oui)
  ELSE Str(Non)

(* the three tests on the four parsed averages *)
BttsLabel(homeGoalsFor, awayGoalsFor, homeGoalsAgainst, awayGoalsAgainst) ==
  IF /\ Gt(homeGoalsFor, Num(8, 10)) /\ Gt(awayGoalsFor, Num(8, 10))
     /\ Gt(homeGoalsAgainst, Num(8, 10)) /\ Gt(awayGoalsAgainst, Num(8, 10))
    THEN Str(Oui)
  ELSE IF Lt(homeGoalsAgainst, Num(5, 10)) \/ Lt(awayGoalsAgainst, Num(5, 10))
    THEN Str(Non)
  ELSE IF Gt(homeGoalsFor, IntNum(1)) /\ Gt(awayGoalsFor, IntNum(1))
    THEN Str(Oui)
  ELSE Str(Non)

(* Optional chaining and parseFloat never throw on the values modelled, so *)
(* the catch that returns "Non" is not taken.                              *)
determineBTTS(teams, comparison) ==
  BttsLabel(parseFloat(OrElse(GetPath(teams, AvgPath("home", "for", "total")), IntNum(0))),
            parseFloat(OrElse(GetPath(teams, AvgPath("away", "for", "total")), IntNum(0))),
            parseFloat(OrElse(GetPath(teams, AvgPath("home", "against", "total")), IntNum(0))),
            parseFloat(OrElse(GetPath(teams, AvgPath("away", "against", "total")), IntNum(0))))

---------------------------------------------------------------------------
(* determineExactScore(prediction, teams, goalsHome, goalsAway) *)

(* prediction === "<literal>" *)
StrictEq(v, lit) == IsString(v) /\ v.s = lit

(* "Ajuster selon la prediction": <<homeGoals, awayGoals>> *)
AdjustGoals(prediction, homeGoals, awayGoals) ==
  IF StrictEq(prediction, P1) \/ StrictEq(prediction, P1X)
    THEN <<MathMax(homeGoals, Plus1(awayGoals)), awayGoals>>
  ELSE IF StrictEq(prediction, P2) \/ StrictEq(prediction, PX2)
    THEN <<homeGoals, MathMax(awayGoals, Plus1(homeGoals))>>
  ELSE IF StrictEq(prediction, PX)
    THEN <<homeGoals, homeGoals>>
  ELSE <<homeGoals, awayGoals>>

(* "Limiter les scores extremes" *)
ClampHome(homeGoals) == MathMin(MathMax(homeGoals, IntNum(0)), IntNum(4))

ClampAway(awayGoals) == MathMin(MathMax(awayGoals, IntNum(0)), IntNum(3))

(* `${homeGoals}-${awayGoals}` *)
ScoreString(homeGoals, awayGoals) ==
  NumToString(homeGoals) \o <<"-">> \o NumToString(awayGoals)

(* Nothing in the try block throws on the values modelled (optional        *)
(* chaining, parseFloat and Math never throw), so the catch that returns   *)
(* "1-1" is not taken.                                                     *)
determineExactScore(prediction, teams, goalsHome, goalsAway) ==
  LET homeAvgFor == parseFloat(OrElse(GetPath(teams, AvgPath("home", "for", "home")), Num(12, 10)))
      awayAvgFor == parseFloat(OrElse(GetPath(teams, AvgPath("away", "for", "away")), Num(9, 10)))
      adj == AdjustGoals(prediction, MathRound(homeAvgFor), MathRound(awayAvgFor))
  IN  Str(ScoreString(ClampHome(adj[1]), ClampAway(adj[2])))

---------------------------------------------------------------------------
(* Inputs of the calls *)

(* the largest integer part of a goals average drawn *)
MaxAvg == 5

(* "<n>%" *)
PctStr(n) == Str(NatToDigits(n) \o <<"%">>)

Pcts == 0..100

(* both sides of every threshold of the rules, and the ends of the range *)
PctGrid == {0, 10, 11, 34, 35, 39, 40, 44, 45, 49, 50, 100}

(* well-formed triples <<home, away, draw>>: every percentage in 0..100    *)
(* on each axis, against every grid combination of the other two           *)
PctTriples ==
  (Pcts \X PctGrid \X PctGrid) \cup (PctGrid \X Pcts \X PctGrid)
    \cup (PctGrid \X PctGrid \X Pcts)

(* percentages that are not "<n>%": non-numeric, empty, signed, padded,    *)
(* fractional, without the suffix, and values that are not strings         *)
MalformedPct ==
  { Str(<<"a", "b", "c", "%">>), Str(<<>>), Str(<<"%">>), Str(<<"5", "0">>),
    Str(<<" ", "4", "5", "%">>), Str(<<"-", "5", "%">>),
    Str(<<"4", "5", ".", "9", "%">>), Str(<<"%", "5", "0">>),
    IntNum(50), Undefined, Null, EmptyObj }

(* the triples <<home, away, draw>> of the documented examples, and the    *)
(* triple substituted when the upstream gives no percentages               *)
ExampleTriples == {<<50, 20, 30>>, <<8, 70, 22>>, <<38, 24, 38>>, <<33, 33, 33>>}

EdgePct == MalformedPct \cup {PctStr(n) : n \in {5, 36, 41, 46, 60}}

Arsenal == <<"A", "r", "s", "e", "n", "a", "l">>

Chelsea == <<"C", "h", "e", "l", "s", "e", "a">>

AlAhly == <<"A", "l", " ", "A", "h", "l", "y">>

(* names equal to a big club, containing one, near misses, and absent *)
HomeNames ==
  { Str(Arsenal), Str(AlAhly), Str(AlAhly \o <<" ", "S", "C">>),
    Str(<<"E", "l", " ">> \o bigClubs[2]), Str(bigClubs[3]), Str(bigClubs[4]),
    Str(<<"P", "y", "r", "a", "m", "i", "d", "s">>),
    Str(<<"a", "l", " ", "a", "h", "l", "y">>), Undefined }

AwayNames == {Str(Chelsea), Undefined}

(* "<k>.<f>" and "-<k>.<f>" *)
AvgStr(neg, k, f) ==
  Str((IF neg THEN <<"-">> ELSE <<>>) \o NatToDigits(k) \o <<".">> \o NatToDigits(f))

(* goals averages: decimals around the rounding boundary, negative, very   *)
(* large, non-numeric, empty, absent, and numbers instead of strings       *)
AvgValues ==
  {AvgStr(neg, k, f) : neg \in BOOLEAN, k \in 0..MaxAvg, f \in {0, 4, 5, 9}}
    \cup { Str(<<"9", "9", "9">>), Str(<<"a", "b", "c">>), Str(<<>>), Str(<<"2">>),
           Undefined, Null, IntNum(0), Num(25, 10), EmptyObj }

(* { league: { goals: { for: { average }, against: { average } } } } *)
TeamStats(forAvg, againstAvg) ==
  Obj([league |-> Obj([goals |-> Obj([for |-> Obj([average |-> forAvg]),
                                      against |-> Obj([average |-> againstAvg])])])])

Average(total, home, away) == Obj([total |-> total, home |-> home, away |-> away])

(* teams whose home side scores homeAvg at home and whose away side scores *)
(* awayAvg away                                                            *)
ScoreTeams(homeAvg, awayAvg) ==
  Obj([home |-> TeamStats(Average(Undefined, homeAvg, Undefined), EmptyObj),
       away |-> TeamStats(Average(Undefined, Undefined, awayAvg), EmptyObj)])

(* teams with nested fields absent at every depth *)
PartialTeams ==
  { Undefined, Null, EmptyObj, Str(<<"x">>), IntNum(0),
    Obj([home |-> Null]), Obj([home |-> EmptyObj]),
    Obj([home |-> Obj([league |-> Null])]),
    Obj([home |-> Obj([league |-> Obj([goals |-> EmptyObj])])]),
    Obj([away |-> Obj([league |-> Obj([goals |-> Obj([for |-> Str(<<"1">>)])])])]),
    Obj([home |-> TeamStats(EmptyObj, EmptyObj)]),
    Obj([home |-> TeamStats(Average(Str(<<"2", ".", "0">>), Str(<<"3", ".", "0">>), Undefined),
                            Undefined)]) }

Predictions ==
  {Str(P1), Str(P2), Str(PX), Str(P1X), Str(PX2), Str(<<>>), Str(<<"x">>), Undefined}

(* goal-estimate texts and advice strings of the upstream payload *)
GoalTexts ==
  { Str(<<"-", "1", ".", "5">>), Str(<<"-", "2", ".", "5">>), Str(<<"-", "3", ".", "5">>),
    Str(<<>>), Undefined, Null, Num(-35, 10), Num(-25, 10), IntNum(0), EmptyObj }

Advices ==
  { Str(<<"W", "i", "n", " ", "+", "2", ".", "5">>), Str(<<"X", " ", "+", "3", ".", "5">>),
    Str(<<"X", " ", "-", "2", ".", "5">>), Str(<<"-", "3", ".", "5">>),
    Str(<<"2", ".", "5">>), Str(<<"W", "i", "n">>), Str(<<>>),
    Undefined, Null, IntNum(5), IntNum(0), EmptyObj }

BttsValues ==
  { Str(<<"0", ".", "4">>), Str(<<"0", ".", "5">>), Str(<<"0", ".", "8">>),
    Str(<<"0", ".", "9">>), Str(<<"1", ".", "0">>), Str(<<"1", ".", "1">>),
    Str(<<"a", "b", "c">>), Undefined }

BttsTeams(hf, af, ha, aa) ==
  Obj([home |-> TeamStats(Average(hf, Undefined, Undefined), Average(ha, Undefined, Undefined)),
       away |-> TeamStats(Average(af, Undefined, Undefined), Average(aa, Undefined, Undefined))])

---------------------------------------------------------------------------
(* One call per behaviour: the classifier keeps no state between calls.    *)

NoCall ==
  /\ pc = "idle"
  /\ fn = "none"
  /\ args = <<>>
  /\ ret = Return(Undefined)

NoEvent == [httpMethod |-> Undefined, path |-> Undefined]

NoUpstream == [net |-> "none", json |-> "none", kinds |-> <<>>]

NoResponse == [statusCode |-> 0, body |-> Undefined]

NoHandler ==
  /\ variant = "none"
  /\ event = NoEvent
  /\ hpc = "none"
  /\ upstream = NoUpstream
  /\ limitedFixtures = <<>>
  /\ fpc = <<>>
  /\ locals = <<>>
  /\ results = <<>>
  /\ requests = 0
  /\ response = NoResponse

(* an application state in which nothing is loaded *)
NoData == [src |-> "none", date |-> "none"]

NoFrontend ==
  /\ state = [isAuthenticated |-> FALSE, currentDate |-> "none", predictions |-> NoData,
              combos |-> NoData, matches |-> NoData]
  /\ currentPin = <<>>
  /\ activeScreen = "none"
  /\ timers = 0
  /\ dateListeners = 0
  /\ loads = <<>>
  /\ sessionInits = 0
  /\ sessionVerified = FALSE

NoFetch == [date |-> "none", stage |-> "none"]

NoOutcome == [outcome |-> "none", data |-> Undefined]

NoComponent ==
  /\ component = [selectedDate |-> "none", predictions |-> Undefined, loading |-> FALSE,
                  error |-> Null, totalMatches |-> IntNum(0)]
  /\ fetching = NoFetch
  /\ settled = NoOutcome

Init == NoCall /\ NoHandler /\ NoFrontend /\ NoComponent

Call(f, a, r) ==
  /\ pc' = "returned"
  /\ fn' = f
  /\ args' = a
  /\ ret' = r
  /\ UNCHANGED <<hvars, fvars, rvars>>

CallDeterminePrediction ==
  /\ pc = "idle"
  /\ \/ \E p \in PctTriples, hn \in {Str(Arsenal), Str(AlAhly \o <<" ", "S", "C">>)} :
          LET a == <<PctStr(p[1]), PctStr(p[2]), PctStr(p[3]), hn, Str(Chelsea)>>
          IN  Call("determinePrediction", a,
                   Return(determinePrediction(a[1], a[2], a[3], a[4], a[5])))
     \/ \E p \in (PctGrid \X PctGrid \X PctGrid) \cup ExampleTriples,
             hn \in HomeNames, an \in AwayNames :
          LET a == <<PctStr(p[1]), PctStr(p[2]), PctStr(p[3]), hn, an>>
          IN  Call("determinePrediction", a,
                   Return(determinePrediction(a[1], a[2], a[3], a[4], a[5])))
     \/ \E h \in EdgePct, w \in EdgePct, d \in EdgePct, hn \in {Str(Arsenal), Str(AlAhly), Undefined} :
          LET a == <<h, w, d, hn, Str(Chelsea)>>
          IN  Call("determinePrediction", a,
                   Return(determinePrediction(a[1], a[2], a[3], a[4], a[5])))

CallGetConfidence ==
  /\ pc = "idle"
  /\ \/ \E p \in PctTriples \cup ExampleTriples :
          LET a == <<PctStr(p[1]), PctStr(p[2]), PctStr(p[3])>>
          IN  Call("getConfidence", a, Return(IntNum(getConfidence(a[1], a[2], a[3]))))
     \/ \E h \in EdgePct, w \in EdgePct, d \in EdgePct :
          Call("getConfidence", <<h, w, d>>, Return(IntNum(getConfidence(h, w, d))))

CallDetermineOverUnder ==
  /\ pc = "idle"
  /\ \E gh \in GoalTexts, ga \in GoalTexts, adv \in Advices :
       Call("determineOverUnder", <<gh, ga, adv>>, determineOverUnder(gh, ga, adv))

CallDetermineBTTS ==
  /\ pc = "idle"
  /\ \/ \E hf \in BttsValues, af \in BttsValues, ha \in BttsValues, aa \in BttsValues :
          LET teams == BttsTeams(hf, af, ha, aa)
          IN  Call("determineBTTS", <<teams, EmptyObj>>, Return(determineBTTS(teams, EmptyObj)))
     \/ \E teams \in PartialTeams, comparison \in {Undefined, EmptyObj} :
          Call("determineBTTS", <<teams, comparison>>, Return(determineBTTS(teams, comparison)))

CallDetermineExactScore ==
  /\ pc = "idle"
  /\ \/ \E p \in Predictions, ha \in AvgValues, aa \in AvgValues :
          LET teams == ScoreTeams(ha, aa)
          IN  Call("determineExactScore", <<p, teams, Undefined, Undefined>>,
                   Return(determineExactScore(p, teams, Undefined, Undefined)))
     \/ \E p \in Predictions, teams \in PartialTeams, g \in {Undefined, Str(<<"-", "2", ".", "5">>)} :
          Call("determineExactScore", <<p, teams, g, g>>,
               Return(determineExactScore(p, teams, g, g)))

Next ==
  \/ CallDeterminePrediction
  \/ CallGetConfidence
  \/ CallDetermineOverUnder
  \/ CallDetermineBTTS
  \/ CallDetermineExactScore

Spec == Init /\ [][Next]_vars

---------------------------------------------------------------------------
(* fetchPrediction and handler: pure parts *)

(* a JSON array *)
Arr(a) == [t |-> "array", a |-> a]

Min(a, b) == IF a <= b THEN a ELSE b

(* ids of PRIORITY_LEAGUES *)
PRIORITY_LEAGUES ==
  { 39, 140, 135, 78, 61, 2, 3, 848, 262, 94, 88, 90, 144, 203, 206, 179, 197,
    307, 305, 301, 330, 417, 895, 233 }

(* the keywords of isImportantName *)
ImportantKeywords ==
  { <<"S", "e", "r", "i", "e", " ", "A">>, <<"L", "i", "g", "a">>,
    <<"P", "r", "e", "m", "i", "e", "r">>,
    <<"B", "u", "n", "d", "e", "s", "l", "i", "g", "a">>,
    <<"L", "i", "g", "u", "e", " ", "1">>,
    <<"C", "h", "a", "m", "p", "i", "o", "n", "s">>,
    <<"E", "u", "r", "o", "p", "a">>, <<"C", "u", "p">>, <<"C", "o", "p", "a">>,
    <<"C", "o", "u", "p", "e">> }

(* "Limit to 25 matches to avoid timeout" *)
MaxMatches == 25

(* mutant of LimitFixtures: no limit *)
LimitFixturesAll(importantFixtures) == importantFixtures

(* importantFixtures.slice(0, 25) *)
LimitFixtures(importantFixtures) ==
  SubSeq(importantFixtures, 1, Min(MaxMatches, Len(importantFixtures)))

(* s.substring(from, to) for 0 <= from <= to *)
Substring(s, from, to) == SubSeq(s, Min(from, Len(s)) + 1, Min(to, Len(s)))

(* event.path.split('/') and its last element *)
RECURSIVE LastSegment(_)
LastSegment(path) ==
  IF path = <<>> THEN <<>>
  ELSE IF path[Len(path)] = "/" THEN <<>>
  ELSE LastSegment(SubSeq(path, 1, Len(path) - 1)) \o <<path[Len(path)]>>

(* mutant of DateFormatOk: the digits are not tested *)
DateFormatLoose(date) ==
  /\ Len(date) = 10
  /\ date[5] = "-"
  /\ date[8] = "-"

(* /^\d{4}-\d{2}-\d{2}$/.test(date) *)
DateFormatOk(date) ==
  /\ Len(date) = 10
  /\ \A i \in {1, 2, 3, 4, 6, 7, 9, 10} : date[i] \in Digits
  /\ date[5] = "-"
  /\ date[8] = "-"

(* one step of the filter loop over a fixture f: it throws on a fixture    *)
(* without its nested objects, and otherwise tells whether f is kept and   *)
(* with which fixtureInfo                                                  *)
FilterFixture(f) ==
  LET league     == Get(f, "league")
      leagueId   == Get(league, "id")
      leagueName == Get(league, "name")
      isPriority == IsNumber(leagueId) /\ ~leagueId.nan /\ leagueId.d = 1
                      /\ leagueId.n \in PRIORITY_LEAGUES
      isImportantName == \E kw \in ImportantKeywords : Includes(leagueName.s, kw)
      fixture    == Get(f, "fixture")
      date       == Get(fixture, "date")
      teams      == Get(f, "teams")
  IN  IF IsNullish(league) \/ ~IsString(leagueName) THEN Throw
      ELSE IF ~(isPriority \/ isImportantName) THEN Return([kept |-> FALSE])
      ELSE IF IsNullish(fixture) \/ ~IsString(date) \/ IsNullish(teams)
                \/ IsNullish(Get(teams, "home")) \/ IsNullish(Get(teams, "away"))
        THEN Throw
      ELSE Return([kept |-> TRUE,
                   info |-> [id     |-> Get(fixture, "id"),
                             time   |-> Str(Substring(date.s, 11, 16)),
                             league |-> leagueName,
                             home   |-> GetPath(teams, <<"home", "name">>),
                             away   |-> GetPath(teams, <<"away", "name">>)]])

(* the filter loop: Throw, or Return(importantFixtures) *)
RECURSIVE FilterImportant(_)
FilterImportant(fixtures) ==
  IF fixtures = <<>> THEN Return(<<>>)
  ELSE LET rest == FilterImportant(SubSeq(fixtures, 1, Len(fixtures) - 1))
           last == FilterFixture(fixtures[Len(fixtures)])
       IN  IF rest.thrown \/ last.thrown THEN Throw
           ELSE IF last.value.kept THEN Return(Append(rest.value, last.value.info))
           ELSE rest

(* data.response?.[0] *)
FirstOf(list) ==
  IF list.t = "array" /\ list.a # <<>> THEN list.a[1] ELSE Undefined

Default33 == Str(<<"3", "3", "%">>)

(* the body of fetchPrediction after `if (!pred) return null`, in the      *)
(* module that has determineBTTS and determineExactScore ("esm") and in    *)
(* the one that has not ("cjs"): Throw, or Return(record)                  *)
BuildRecord(v, fixtureId, fixtureInfo, pred) ==
  LET predictions == OrElse(Get(pred, "predictions"), EmptyObj)
      percent     == OrElse(Get(predictions, "percent"), EmptyObj)
      goals       == OrElse(Get(predictions, "goals"), EmptyObj)
      teams       == OrElse(Get(pred, "teams"), EmptyObj)
      comparison  == OrElse(Get(pred, "comparison"), EmptyObj)
      homePct     == OrElse(Get(percent, "home"), Default33)
      drawPct     == OrElse(Get(percent, "draw"), Default33)
      awayPct     == OrElse(Get(percent, "away"), Default33)
      advice      == OrElse(Get(predictions, "advice"), Str(<<>>))
      dp          == determinePrediction(homePct, awayPct, drawPct,
                                         fixtureInfo.home, fixtureInfo.away)
      overUnder   == determineOverUnder(Get(goals, "home"), Get(goals, "away"), advice)
      confidence  == getConfidence(homePct, awayPct, drawPct)
  IN  IF overUnder.thrown THEN Throw
      ELSE IF v = "esm"
        THEN Return(Obj([id |-> fixtureId, time |-> fixtureInfo.time,
                         league |-> fixtureInfo.league, home |-> fixtureInfo.home,
                         away |-> fixtureInfo.away, home_pct |-> homePct,
                         draw_pct |-> drawPct, away_pct |-> awayPct,
                         prediction |-> Str(dp.prediction),
                         prediction_text |-> Str(dp.text),
                         over_under |-> overUnder.value,
                         btts |-> determineBTTS(teams, comparison),
                         exact_score |-> determineExactScore(Str(dp.prediction), teams,
                                           Get(goals, "home"), Get(goals, "away")),
                         confidence |-> IntNum(confidence), advice |-> advice]))
      ELSE Return(Obj([id |-> fixtureId, time |-> fixtureInfo.time,
                       league |-> fixtureInfo.league, home |-> fixtureInfo.home,
                       away |-> fixtureInfo.away, home_pct |-> homePct,
                       draw_pct |-> drawPct, away_pct |-> awayPct,
                       prediction |-> Str(dp.prediction),
                       prediction_text |-> Str(dp.text),
                       over_under |-> overUnder.value,
                       confidence |-> IntNum(confidence), advice |-> advice]))

(* mutant of AfterJson: the module with determineBTTS gives up on a        *)
(* payload without teams                                                   *)
AfterJsonTeamsRequired(v, fixtureInfo, parsed) ==
  IF parsed.thrown THEN Null
  ELSE IF IsNullish(parsed.value) THEN Null
  ELSE LET pred == FirstOf(Get(parsed.value, "response"))
       IN  IF ~Truthy(pred) THEN Null
           ELSE IF v = "esm" /\ ~Truthy(Get(pred, "teams")) THEN Null
           ELSE LET r == BuildRecord(v, fixtureInfo.id, fixtureInfo, pred)
                IN  IF r.thrown THEN Null ELSE r.value

(* mutant of AfterJson: `if (!pred) return null` left out *)
AfterJsonUnguarded(v, fixtureInfo, parsed) ==
  IF parsed.thrown THEN Null
  ELSE IF IsNullish(parsed.value) THEN Null
  ELSE LET r == BuildRecord(v, fixtureInfo.id, fixtureInfo,
                            FirstOf(Get(parsed.value, "response")))
       IN  IF r.thrown THEN Null ELSE r.value

(* fetchPrediction from `const data = await resp.json()` on, given the     *)
(* completion of resp.json(): the record, or null from `if (!pred)` and    *)
(* from the catch                                                          *)
AfterJson(v, fixtureInfo, parsed) ==
  IF parsed.thrown THEN Null
  ELSE IF IsNullish(parsed.value) THEN Null
  ELSE LET pred == FirstOf(Get(parsed.value, "response"))
       IN  IF ~Truthy(pred) THEN Null
           ELSE LET r == BuildRecord(v, fixtureInfo.id, fixtureInfo, pred)
                IN  IF r.thrown THEN Null ELSE r.value

(* results.filter(r => r !== null) *)
FilterNonNull(rs) == SelectSeq(rs, LAMBDA r : r.t # "null")

(* collation rank of the characters of a time "HH:MM": punctuation sorts   *)
(* before digits, digits by value                                          *)
CharRank(c) == IF c \in Digits THEN 1 + DigitVal(c) ELSE 0

(* a.localeCompare(b) on such texts: negative, zero or positive *)
RECURSIVE LocaleCompare(_, _)
LocaleCompare(a, b) ==
  IF a = <<>> /\ b = <<>> THEN 0
  ELSE IF a = <<>> THEN -1
  ELSE IF b = <<>> THEN 1
  ELSE IF CharRank(Head(a)) < CharRank(Head(b)) THEN -1
  ELSE IF CharRank(Head(a)) > CharRank(Head(b)) THEN 1
  ELSE LocaleCompare(Tail(a), Tail(b))

CompareTime(a, b) == LocaleCompare(Get(a, "time").s, Get(b, "time").s)

(* Array.prototype.sort is stable: x goes after every element that does    *)
(* not sort after it                                                       *)
InsertSorted(sorted, x) ==
  LET k == Cardinality({i \in DOMAIN sorted : CompareTime(sorted[i], x) <= 0})
  IN  SubSeq(sorted, 1, k) \o <<x>> \o SubSeq(sorted, k + 1, Len(sorted))

(* mutant of SortByTime: the sort left out *)
Unsorted(predictions) == predictions

(* predictions.sort((a, b) => a.time.localeCompare(b.time)) *)
RECURSIVE SortByTime(_)
SortByTime(predictions) ==
  IF predictions = <<>> THEN <<>>
  ELSE InsertSorted(SortByTime(SubSeq(predictions, 1, Len(predictions) - 1)),
                    predictions[Len(predictions)])

(* JSON.stringify of a record, as the client parses it: properties whose   *)
(* value is undefined are left out                                         *)
Stringify(p) ==
  IF p.t = "object"
    THEN Obj([k \in {x \in DOMAIN p.f : p.f[x].t # "undefined"} |-> p.f[k]])
  ELSE p

(* the 200 response of the handler *)
OkResponse(date, predictions) ==
  [statusCode |-> 200,
   body |-> Obj([date |-> Str(date),
                 total_matches |-> IntNum(Len(predictions)),
                 predictions |-> Arr([i \in DOMAIN predictions |-> Stringify(predictions[i])])])]

BadRequest ==
  [statusCode |-> 400,
   body |-> Obj([error |-> Str(<<"F", "o", "r", "m", "a", "t", " ", "d", "e", " ", "d", "a", "t", "e",
                                 " ", "i", "n", "v", "a", "l", "i", "d", "e", ".", " ", "U", "t", "i",
                                 "l", "i", "s", "e", "z", " ", "Y", "Y", "Y", "Y", "-", "M", "M",
                                 "-", "D", "D">>)])]

ServerError ==
  [statusCode |-> 500,
   body |-> Obj([error |-> Str(<<"E", "r", "r", "e", "u", "r", " ", "s", "e", "r", "v", "e", "u", "r">>)])]

OptionsResponse == [statusCode |-> 200, body |-> Str(<<>>)]

(* mutant of LocalOf: one cell shared by all calls *)
SharedLocal(i) == 1

(* `const resp` is a local of the call: the i-th call of fetchPrediction   *)
(* reads and writes its own cell                                           *)
LocalOf(i) == i

---------------------------------------------------------------------------
(* What the handler is given: events, and the upstream's answers *)

(* lists of at most this many fixtures are checked under every order of    *)
(* completion of their requests; longer lists complete in request order    *)
MaxInterleaved == 3

(* the longest list of fixtures the upstream returns *)
MaxFixtures == 27

ApiPath == <<"/", "a", "p", "i", "/", "p", "r", "e", "d", "i", "c", "t", "i", "o", "n", "s", "/">>

GoodDate == <<"2", "0", "2", "6", "-", "0", "1", "-", "1", "5">>

(* last path segments that are not YYYY-MM-DD *)
BadDates ==
  { <<"2", "0", "2", "6", "-", "1", "-", "1", "5">>,
    <<"1", "5", "-", "0", "1", "-", "2", "0", "2", "6">>,
    <<"2", "0", "2", "6", "/", "0", "1", "/", "1", "5">>,
    <<"2", "0", "2", "6", "-", "0", "1", "-", "1", "5", "x">>,
    <<"a", "b", "c", "d", "-", "e", "f", "-", "g", "h">>,
    <<"2", "0", "2", "6", "-", "0", "1", "-", "1", "5", "\n">>,
    <<>> }

Events ==
  { [httpMethod |-> Str(<<"O", "P", "T", "I", "O", "N", "S">>), path |-> Undefined],
    [httpMethod |-> Str(<<"G", "E", "T">>), path |-> Undefined],
    [httpMethod |-> Str(<<"G", "E", "T">>), path |-> Str(ApiPath \o GoodDate)] }
    \cup {[httpMethod |-> Str(<<"G", "E", "T">>), path |-> Str(ApiPath \o d)] : d \in BadDates}

T0900 == <<"0", "9", ":", "0", "0">>

T1230 == <<"1", "2", ":", "3", "0">>

T1500 == <<"1", "5", ":", "0", "0">>

PremierLeague == <<"P", "r", "e", "m", "i", "e", "r", " ", "L", "e", "a", "g", "u", "e">>

(* a complete prediction payload *)
FullPayload ==
  Obj([predictions |->
         Obj([percent |-> Obj([home |-> PctStr(50), draw |-> PctStr(30), away |-> PctStr(20)]),
              goals   |-> Obj([home |-> Str(<<"-", "3", ".", "5">>),
                               away |-> Str(<<"-", "1", ".", "5">>)]),
              advice  |-> Str(<<"W", "i", "n", " ", "+", "2", ".", "5">>)]),
       teams |->
         Obj([home |-> TeamStats(Average(Str(<<"1", ".", "1">>), Str(<<"1", ".", "5">>), Undefined),
                                 Average(Str(<<"0", ".", "9">>), Undefined, Undefined)),
              away |-> TeamStats(Average(Str(<<"1", ".", "1">>), Undefined, Str(<<"0", ".", "9">>)),
                                 Average(Str(<<"0", ".", "9">>), Undefined, Undefined))]),
       comparison |-> EmptyObj])

(* a payload with percentages only *)
PercentPayload ==
  Obj([predictions |->
         Obj([percent |-> Obj([home |-> PctStr(8), draw |-> PctStr(22), away |-> PctStr(70)])])])

(* a payload whose advice is not a text *)
NumericAdvicePayload ==
  Obj([predictions |->
         Obj([percent |-> Obj([home |-> PctStr(38), draw |-> PctStr(38), away |-> PctStr(24)]),
              advice  |-> IntNum(5)])])

Body(list) == Return(Obj([response |-> Arr(list)]))

(* kinds of fixture: the fixture object the fixtures request lists, and    *)
(* the answer to the prediction request for it (net: the fetch resolves or *)
(* rejects; body: the completion of resp.json())                           *)
FixtureKinds ==
  << [league |-> Obj([id |-> IntNum(39), name |-> Str(PremierLeague)]), time |-> T1500,
      home |-> Str(Arsenal), away |-> Str(Chelsea), net |-> "ok", body |-> Body(<<FullPayload>>)],
     [league |-> Obj([id |-> IntNum(9001), name |-> Str(<<"C", "o", "p", "a", " ", "R", "e", "y">>)]),
      time |-> T1230, home |-> Str(AlAhly \o <<" ", "S", "C">>), away |-> Str(Chelsea),
      net |-> "ok", body |-> Body(<<PercentPayload>>)],
     [league |-> Obj([id |-> IntNum(9002), name |-> Str(<<"F", "r", "i", "e", "n", "d", "l", "y">>)]),
      time |-> T0900, home |-> Str(Arsenal), away |-> Str(Chelsea),
      net |-> "ok", body |-> Body(<<FullPayload>>)],
     [league |-> Obj([id |-> IntNum(39), name |-> Str(PremierLeague)]), time |-> T1500,
      home |-> Str(Arsenal), away |-> Str(Chelsea), net |-> "reject", body |-> Throw],
     [league |-> Obj([id |-> IntNum(39), name |-> Str(PremierLeague)]), time |-> T0900,
      home |-> Str(Arsenal), away |-> Str(Chelsea), net |-> "ok", body |-> Body(<<>>)],
     [league |-> Obj([id |-> IntNum(39), name |-> Str(PremierLeague)]), time |-> T1230,
      home |-> Str(Arsenal), away |-> Str(Chelsea), net |-> "ok",
      body |-> Body(<<NumericAdvicePayload>>)],
     [league |-> Obj([id |-> IntNum(39), name |-> Str(PremierLeague)]), time |-> T0900,
      home |-> Str(Arsenal), away |-> Str(Chelsea), net |-> "ok", body |-> Throw],
     [league |-> Undefined, time |-> T0900,
      home |-> Str(Arsenal), away |-> Str(Chelsea), net |-> "ok", body |-> Body(<<FullPayload>>)],
     [league |-> Obj([id |-> IntNum(2), name |-> Str(<<"U", "C", "L">>)]), time |-> T0900,
      home |-> Undefined, away |-> Undefined, net |-> "ok", body |-> Body(<<EmptyObj>>)],
     [league |-> Obj([id |-> IntNum(39), name |-> Str(PremierLeague)]), time |-> T1230,
      home |-> Str(Arsenal), away |-> Str(Chelsea), net |-> "ok", body |-> Return(Null)] >>

(* the kinds drawn for the short lists *)
ShortKinds == 1..7

(* the long lists repeat one of these runs of kinds *)
Patterns == {<<1>>, <<1, 3>>, <<4, 1, 2>>, <<9, 5, 6, 7, 2, 10, 1, 3>>, <<5, 4, 7, 6>>, <<1, 8>>}

RECURSIVE KindLists(_)
KindLists(n) ==
  IF n = 0 THEN {<<>>}
  ELSE KindLists(n - 1) \cup {Append(l, k) : l \in {x \in KindLists(n - 1) : Len(x) = n - 1},
                                             k \in ShortKinds}

PatternList(pat, n) == [i \in 1..n |-> pat[((i - 1) % Len(pat)) + 1]]

(* answers to the fixtures request: a rejected fetch, a body that is not   *)
(* JSON, a body without `response`, and lists of fixtures                  *)
Upstreams ==
  { [net |-> "reject", json |-> "none", kinds |-> <<>>],
    [net |-> "ok", json |-> "invalid", kinds |-> <<>>],
    [net |-> "ok", json |-> "noresponse", kinds |-> <<>>] }
    \cup {[net |-> "ok", json |-> "list", kinds |-> l] : l \in KindLists(MaxInterleaved)}
    \cup {[net |-> "ok", json |-> "list", kinds |-> PatternList(pat, n)] :
            pat \in Patterns, n \in (MaxInterleaved + 1)..MaxFixtures}

(* the fixture object with the given id and kind *)
FixtureOf(id, kind) ==
  IF kind.league.t = "undefined"
    THEN Obj([fixture |-> Obj([id |-> IntNum(id)])])
  ELSE Obj([fixture |-> Obj([id |-> IntNum(id),
                             date |-> Str(GoodDate \o <<"T">> \o kind.time
                                            \o <<":", "0", "0", "+", "0", "0", ":", "0", "0">>)]),
            league  |-> kind.league,
            teams   |-> Obj([home |-> Obj([name |-> kind.home]),
                             away |-> Obj([name |-> kind.away])])])

(* fixturesData.response || []; fixture ids are positions in the list *)
FixturesOf(u) ==
  IF u.json = "list" THEN [i \in DOMAIN u.kinds |-> FixtureOf(i, FixtureKinds[u.kinds[i]])]
  ELSE <<>>

(* the kind of the fixture whose id is given *)
KindOfId(id) == FixtureKinds[upstream.kinds[id]]

---------------------------------------------------------------------------
(* The handler and its fetchPrediction calls *)

InitHandler ==
  /\ NoCall
  /\ variant \in {"esm", "cjs"}
  /\ event \in Events
  /\ hpc = "start"
  /\ upstream = NoUpstream
  /\ limitedFixtures = <<>>
  /\ fpc = <<>>
  /\ locals = <<>>
  /\ results = <<>>
  /\ requests = 0
  /\ response = NoResponse
  /\ NoFrontend
  /\ NoComponent

(* the handler answers and ends *)
Respond(r) ==
  /\ response' = r
  /\ hpc' = "done"

(* the date of the request *)
RequestDate == LastSegment(event.path.s)

(* from the entry of the handler to its first await: the OPTIONS answer,   *)
(* the date check, the fixtures request                                    *)
HandlerStart ==
  /\ hpc = "start"
  /\ IF event.httpMethod = Str(<<"O", "P", "T", "I", "O", "N", "S">>)
       THEN Respond(OptionsResponse)
     ELSE IF ~IsString(event.path) THEN Respond(ServerError)
     ELSE IF ~DateFormatOk(RequestDate) THEN Respond(BadRequest)
     ELSE hpc' = "fixtures" /\ UNCHANGED response
  /\ UNCHANGED <<cvars, fvars, rvars, variant, event, upstream, limitedFixtures, fpc, locals, results,
                 requests>>

(* limitedFixtures.map(fix => fetchPrediction(fix.id, fix)): every call    *)
(* runs to its first await, so every request is sent                       *)
Dispatch(limited) ==
  /\ limitedFixtures' = limited
  /\ fpc' = [i \in DOMAIN limited |-> "fetch"]
  /\ locals' = [i \in DOMAIN limited |-> 0]
  /\ results' = [i \in DOMAIN limited |-> Undefined]
  /\ requests' = Len(limited)
  /\ hpc' = "predictions"
  /\ UNCHANGED response

(* the fixtures request settles: up to `await Promise.all` *)
FixturesSettled ==
  /\ hpc = "fixtures"
  /\ \E u \in Upstreams :
       /\ upstream' = u
       /\ IF u.net = "reject" \/ u.json = "invalid"
            THEN Respond(ServerError)
                   /\ UNCHANGED <<limitedFixtures, fpc, locals, results, requests>>
          ELSE IF FixturesOf(u) = <<>>
            THEN Respond(OkResponse(RequestDate, <<>>))
                   /\ UNCHANGED <<limitedFixtures, fpc, locals, results, requests>>
          ELSE LET importantFixtures == FilterImportant(FixturesOf(u))
               IN  IF importantFixtures.thrown
                     THEN Respond(ServerError)
                            /\ UNCHANGED <<limitedFixtures, fpc, locals, results, requests>>
                   ELSE Dispatch(LimitFixtures(importantFixtures.value))
  /\ UNCHANGED <<cvars, fvars, rvars, variant, event>>

(* the order in which the requests of a long list complete *)
MayRun(i) ==
  Len(limitedFixtures) <= MaxInterleaved \/ \A j \in 1..(i - 1) : fpc[j] = "done"

(* the fetch of the i-th call settles: rejected, the catch returns null;   *)
(* resolved, resp is bound and resp.json() is awaited                      *)
FetchSettled(i) ==
  /\ hpc = "predictions"
  /\ fpc[i] = "fetch"
  /\ MayRun(i)
  /\ IF KindOfId(limitedFixtures[i].id.n).net = "reject"
       THEN /\ fpc' = [fpc EXCEPT ![i] = "done"]
            /\ results' = [results EXCEPT ![i] = Null]
            /\ UNCHANGED locals
     ELSE /\ fpc' = [fpc EXCEPT ![i] = "json"]
          /\ locals' = [locals EXCEPT ![LocalOf(i)] = limitedFixtures[i].id.n]
          /\ UNCHANGED results
  /\ UNCHANGED <<cvars, fvars, rvars, variant, event, hpc, upstream, limitedFixtures, requests, response>>

(* resp.json() of the i-th call settles, and the call runs to its return *)
JsonSettled(i) ==
  /\ hpc = "predictions"
  /\ fpc[i] = "json"
  /\ MayRun(i)
  /\ fpc' = [fpc EXCEPT ![i] = "done"]
  /\ results' = [results EXCEPT ![i] =
                   AfterJson(variant, limitedFixtures[i], KindOfId(locals[LocalOf(i)]).body)]
  /\ UNCHANGED <<cvars, fvars, rvars, variant, event, hpc, upstream, limitedFixtures, locals, requests,
                 response>>

(* Promise.all resolves: filter, sort, answer *)
AllSettled ==
  /\ hpc = "predictions"
  /\ \A i \in DOMAIN fpc : fpc[i] = "done"
  /\ Respond(OkResponse(RequestDate, SortByTime(FilterNonNull(results))))
  /\ UNCHANGED <<cvars, fvars, rvars, variant, event, upstream, limitedFixtures, fpc, locals, results,
                 requests>>

NextHandler ==
  \/ HandlerStart
  \/ FixturesSettled
  \/ \E i \in DOMAIN fpc : FetchSettled(i)
  \/ \E i \in DOMAIN fpc : JsonSettled(i)
  \/ AllSettled

SpecHandler == InitHandler /\ [][NextHandler]_vars

---------------------------------------------------------------------------
(* The PIN-protected, date-based frontend *)

CORRECT_PIN == <<"1", "9", "9", "1">>

(* the digit keys pressed *)
PinDigits == {"1", "9"}

(* the dates the user picks; the page opens on the first *)
Today == "d0"

Dates == {"d0", "d1"}

(* verifyPin timers pending at once *)
MaxTimers == 2

(* runs of initApp, each of which registers one more date-change listener *)
MaxListeners == 2

(* loadData calls in flight at once *)
MaxLoads == 2

(* mutant of PinMatches: the buffer is compared over its own length *)
PinMatchesPrefix(pin) == pin = SubSeq(CORRECT_PIN, 1, Len(pin))

(* currentPin === CORRECT_PIN *)
PinMatches(pin) == pin = CORRECT_PIN

(* mutant of BufferHasRoom: one comparison off *)
BufferHasRoomInclusive(pin) == Len(pin) <= 4

(* currentPin.length < 4 *)
BufferHasRoom(pin) == Len(pin) < 4

(* a loadData call in flight: the date its three requests were built with, *)
(* and the requests not yet settled                                        *)
LoadKinds ==
  [date : Dates, pending : SUBSET {"predictions", "combos", "matches"} \ {{}}]

NewLoad(date) == [date |-> date, pending |-> {"predictions", "combos", "matches"}]

(* the calls in flight are kept as the number of calls of each kind *)
NoLoads == [k \in LoadKinds |-> 0]

InFlight(ls) == Cardinality({x \in LoadKinds \X (1..MaxLoads) : x[2] <= ls[x[1]]})

(* n more calls of loadData on the date *)
StartLoads(ls, date, n) == [ls EXCEPT ![NewLoad(date)] = @ + n]

(* the data the API returns for a date *)
ApiData(date) == [src |-> "api", date |-> date]

(* generateDemoData(): matches dated with state.currentDate *)
DemoData(date) == [src |-> "demo", date |-> date]

(* generateDemoCombos(): built from the predictions then in state *)
DemoCombos(p) == [src |-> "demo", date |-> p.date]

(* state.predictions.map(p => p.match) *)
MapMatch(p) == IF p.src = "none" THEN p ELSE [src |-> "map", date |-> p.date]

InitFrontend ==
  /\ NoCall
  /\ NoHandler
  /\ NoComponent
  /\ state = [isAuthenticated |-> FALSE, currentDate |-> Today, predictions |-> NoData,
              combos |-> NoData, matches |-> NoData]
  /\ currentPin = <<>>
  /\ activeScreen = "login"
  /\ timers = 0
  /\ dateListeners = 0
  /\ loads = NoLoads
  /\ sessionInits = 0
  /\ sessionVerified = FALSE

(* initApp, called with isAuthenticated already set: one more date-change  *)
(* listener (a new closure each time), and loadData()                      *)
InitApp ==
  /\ dateListeners < MaxListeners
  /\ InFlight(loads) < MaxLoads
  /\ dateListeners' = dateListeners + 1
  /\ loads' = StartLoads(loads, state.currentDate, 1)
  /\ sessionInits' = sessionInits + 1

(* verifyPin() *)
VerifyPin ==
  /\ sessionVerified' = (sessionVerified \/ currentPin = <<"1", "9", "9", "1">>)
  /\ IF PinMatches(currentPin)
       THEN /\ state' = [state EXCEPT !.isAuthenticated = TRUE]
            /\ activeScreen' = "main"
            /\ InitApp
            /\ UNCHANGED currentPin
     ELSE /\ currentPin' = <<>>
          /\ UNCHANGED <<state, activeScreen, dateListeners, loads, sessionInits>>

(* handlePinInput(key) *)
HandlePinInput(key) ==
  IF key = "clear"
    THEN /\ currentPin' = <<>>
         /\ UNCHANGED <<state, activeScreen, timers, dateListeners, loads, sessionInits,
                        sessionVerified>>
  ELSE IF key = "enter"
    THEN VerifyPin /\ UNCHANGED timers
  ELSE IF BufferHasRoom(currentPin)
    THEN /\ currentPin' = Append(currentPin, key)
         /\ IF Len(currentPin) + 1 = 4
              THEN timers < MaxTimers /\ timers' = timers + 1
            ELSE UNCHANGED timers
         /\ UNCHANGED <<state, activeScreen, dateListeners, loads, sessionInits,
                        sessionVerified>>
  ELSE UNCHANGED fvars

(* a click on a key of the keypad, which the login screen shows, or a key  *)
(* press, which the keydown listener handles while not authenticated       *)
PinKey ==
  /\ activeScreen \in {"login", "main"}
  /\ \E via \in {"click", "keydown"}, key \in PinDigits \cup {"clear", "enter"} :
       /\ via = "click" => activeScreen = "login"
       /\ via = "keydown" => ~state.isAuthenticated
       /\ HandlePinInput(key)
  /\ UNCHANGED <<cvars, hvars, rvars>>

(* a timer set by setTimeout(verifyPin, 200) fires *)
TimerFires ==
  /\ timers > 0
  /\ timers' = timers - 1
  /\ VerifyPin
  /\ UNCHANGED <<cvars, hvars, rvars>>

(* logout(), by the button of the main screen *)
Logout ==
  /\ activeScreen = "main"
  /\ dateListeners > 0
  /\ state' = [state EXCEPT !.isAuthenticated = FALSE]
  /\ currentPin' = <<>>
  /\ activeScreen' = "login"
  /\ sessionInits' = 0
  /\ sessionVerified' = FALSE
  /\ UNCHANGED <<timers, dateListeners, loads, cvars, hvars, rvars>>

(* the date picker changes: every registered listener sets currentDate     *)
(* and calls loadData()                                                    *)
ChangeDate ==
  /\ activeScreen = "main"
  /\ dateListeners > 0
  /\ InFlight(loads) + dateListeners <= MaxLoads
  /\ \E date \in Dates \ {state.currentDate} :
       /\ state' = [state EXCEPT !.currentDate = date]
       /\ loads' = StartLoads(loads, date, dateListeners)
  /\ UNCHANGED <<currentPin, activeScreen, timers, dateListeners, sessionInits,
                 sessionVerified, cvars, hvars, rvars>>

(* the calls in flight after request `what` of a call of kind k settled:   *)
(* a call whose three requests have settled has returned                   *)
AfterSettle(k, what) ==
  LET rest == k.pending \ {what}
      less == [loads EXCEPT ![k] = @ - 1]
  IN  IF rest = {} THEN less
      ELSE [less EXCEPT ![[date |-> k.date, pending |-> rest]] = @ + 1]

(* loadPredictions, loadCombos, loadMatches from their await to their end: *)
(* the response is ok and parsed, or the catch runs                        *)
Settle(k) ==
  /\ activeScreen \in {"login", "main"}
  /\ loads[k] > 0
  /\ \E what \in k.pending, ok \in BOOLEAN :
       /\ loads' = AfterSettle(k, what)
       /\ state' =
            IF what = "predictions"
              THEN [state EXCEPT !.predictions = IF ok THEN ApiData(k.date)
                                               ELSE DemoData(state.currentDate)]
            ELSE IF what = "combos"
              THEN [state EXCEPT !.combos = IF ok THEN ApiData(k.date)
                                          ELSE DemoCombos(state.predictions)]
            ELSE [state EXCEPT !.matches = IF ok THEN ApiData(k.date)
                                           ELSE MapMatch(state.predictions)]
  /\ UNCHANGED <<currentPin, activeScreen, timers, dateListeners, sessionInits,
                 sessionVerified, cvars, hvars, rvars>>

(* The session: the keypad, the timers, login and logout, the date picker. *)
(* None of these steps reads the data fields of state or waits for a       *)
(* request, and no request settling touches the session, so the session is *)
(* explored with the requests still in flight.                             *)
NextFrontend ==
  \/ PinKey
  \/ TimerFires
  \/ Logout
  \/ ChangeDate

SpecFrontend == InitFrontend /\ [][NextFrontend]_vars

(* The data: the page as initApp leaves it after a login, the date picker  *)
(* and the requests. initApp has run once, or twice on the same PIN        *)
(* (Enter and the timer), each run having registered a listener and called *)
(* loadData.                                                               *)
InitLoads ==
  /\ NoCall /\ NoHandler /\ NoComponent
  /\ \E n \in 1..MaxListeners :
       /\ n <= MaxLoads
       /\ dateListeners = n
       /\ loads = StartLoads(NoLoads, Today, n)
       /\ sessionInits = n
  /\ state = [isAuthenticated |-> TRUE, currentDate |-> Today,
              predictions |-> NoData, combos |-> NoData, matches |-> NoData]
  /\ currentPin = CORRECT_PIN
  /\ activeScreen = "main"
  /\ timers = 0
  /\ sessionVerified = TRUE

NextLoads ==
  \/ ChangeDate
  \/ \E k \in LoadKinds : Settle(k)

SpecLoads == InitLoads /\ [][NextLoads]_vars

---------------------------------------------------------------------------
(* The React component PredictionsApp *)

(* new Error(message), TypeError, SyntaxError *)
ErrorOf(message) == [isError |-> TRUE, message |-> message]

NotOkMessage ==
  Str(<<"E", "r", "r", "e", "u", "r", " ", "l", "o", "r", "s", " ", "d",
  "e", " ", "l", "a", " ", "r", "e", "c", "u", "p", "e", "r", "a", "t",
  "i", "o", "n", " ", "d", "e", "s", " ", "p", "r", "e", "d", "i", "c",
  "t", "i", "o", "n", "s">>)

FallbackMessage ==
  Str(<<"U", "n", "e", " ", "e", "r", "r", "e", "u", "r", " ", "e", "s",
  "t", " ", "s", "u", "r", "v", "e", "n", "u", "e">>)

(* what fetch and response.json() reject with, and the TypeError of        *)
(* reading data.predictions of null                                        *)
FailedToFetch ==
  Str(<<"F", "a", "i", "l", "e", "d", " ", "t", "o", " ", "f", "e", "t",
  "c", "h">>)

UnexpectedToken ==
  Str(<<"U", "n", "e", "x", "p", "e", "c", "t", "e", "d", " ", "t", "o",
  "k", "e", "n">>)

CannotRead ==
  Str(<<"C", "a", "n", "n", "o", "t", " ", "r", "e", "a", "d", " ", "p",
  "r", "o", "p", "e", "r", "t", "i", "e", "s", " ", "o", "f", " ", "n",
  "u", "l", "l">>)

(* the bodies a 200 response parses to *)
OnePrediction == Obj([id |-> IntNum(1)])

ResponseBodies ==
  { Obj([predictions |-> Arr(<<>>), total_matches |-> IntNum(0)]),
    Obj([predictions |-> Arr(<<OnePrediction>>), total_matches |-> IntNum(1)]),
    Obj([predictions |-> Arr(<<OnePrediction, OnePrediction>>),
         total_matches |-> IntNum(2)]),
    Obj([predictions |-> Arr(<<OnePrediction, OnePrediction, OnePrediction>>),
         total_matches |-> IntNum(3)]),
    Obj([date |-> Str(<<"d">>)]),
    Null }

(* a finally block that is never reached *)
FinallySkipped(c) == c

(* finally { setLoading(false) } *)
Finally(c) == [c EXCEPT !.loading = FALSE]

(* catch (err): setError(...), setPredictions([]) *)
Catch(c, err) ==
  [c EXCEPT !.error = IF err.isError THEN err.message ELSE FallbackMessage,
            !.predictions = Arr(<<>>)]

(* setPredictions(data.predictions); setTotalMatches(data.total_matches) *)
SetData(c, data) ==
  [c EXCEPT !.predictions = Get(data, "predictions"),
            !.totalMatches = Get(data, "total_matches")]

(* the component as first rendered *)
InitReact ==
  /\ NoCall /\ NoHandler /\ NoFrontend
  /\ component = [selectedDate |-> Today, predictions |-> Arr(<<>>), loading |-> FALSE,
                  error |-> Null, totalMatches |-> IntNum(0)]
  /\ fetching = NoFetch
  /\ settled = NoOutcome

(* onChange of the date input *)
SetSelectedDate ==
  /\ \E date \in Dates \ {component.selectedDate} :
       component' = [component EXCEPT !.selectedDate = date]
  /\ UNCHANGED <<fetching, settled, cvars, hvars, fvars>>

(* a click on the button, disabled while loading: fetchPredictions up to   *)
(* its await fetch(...)                                                    *)
FetchPredictions ==
  /\ ~component.loading
  /\ component' = [component EXCEPT !.loading = TRUE, !.error = Null]
  /\ fetching' = [date |-> component.selectedDate, stage |-> "fetch"]
  /\ settled' = NoOutcome
  /\ UNCHANGED <<cvars, hvars, fvars>>

(* the catch and finally blocks after err was thrown in the try block *)
Fails(err) ==
  /\ component' = Finally(Catch(component, err))
  /\ fetching' = NoFetch
  /\ settled' = [outcome |-> "failure", data |-> Undefined]

(* fetch settles: a response that is ok, one that is not, or a rejection *)
FetchResolves ==
  /\ fetching.stage = "fetch"
  /\ \E outcome \in {"ok", "not ok", "rejected"} :
       IF outcome = "ok"
         THEN /\ fetching' = [fetching EXCEPT !.stage = "json"]
              /\ UNCHANGED <<component, settled>>
       ELSE IF outcome = "not ok" THEN Fails(ErrorOf(NotOkMessage))
       ELSE Fails(ErrorOf(FailedToFetch))
  /\ UNCHANGED <<cvars, hvars, fvars>>

(* response.json() settles: a body, or a rejection on a body that is not   *)
(* JSON                                                                    *)
JsonResolves ==
  /\ fetching.stage = "json"
  /\ \/ \E data \in ResponseBodies :
          IF IsNullish(data) THEN Fails(ErrorOf(CannotRead))
          ELSE /\ component' = Finally(SetData(component, data))
               /\ fetching' = NoFetch
               /\ settled' = [outcome |-> "success", data |-> data]
     \/ Fails(ErrorOf(UnexpectedToken))
  /\ UNCHANGED <<cvars, hvars, fvars>>

NextReact ==
  \/ SetSelectedDate
  \/ FetchPredictions
  \/ FetchResolves
  \/ JsonResolves

SpecReact == InitReact /\ [][NextReact]_vars

---------------------------------------------------------------------------
(* Properties *)

IsCall(f) == pc = "returned" /\ fn = f

(* the well-formed percentage strings "<n>%" and the integer each denotes *)
WellFormedPct == {PctStr(n) : n \in Pcts}

PctValue == [v \in WellFormedPct |-> CHOOSE n \in Pcts : PctStr(n) = v]

(* a call of determinePrediction or getConfidence on a well-formed triple *)
WellFormedCall == \A i \in 1..3 : args[i] \in WellFormedPct

HomeP == PctValue[args[1]]

AwayP == PctValue[args[2]]

DrawP == PctValue[args[3]]

NamedCall == IsString(args[4]) /\ IsString(args[5])

(* containment of a configured big-club name, position by position *)
ContainsBigClub(name) ==
  \E k \in DOMAIN bigClubs : \E i \in 1..Len(name) : \E j \in i..Len(name) :
    SubSeq(name, i, j) = bigClubs[k]

(* the ordered table of the outcome rule, over integers *)
RefPrediction(home, draw, away, homeName, awayName) ==
  IF home >= 45 /\ away <= 10 THEN Pred(P1, homeName \o Gagne)
  ELSE IF away >= 45 /\ home <= 10
    THEN IF ContainsBigClub(homeName) THEN Pred(P1X, DC \o homeName)
         ELSE Pred(P2, awayName \o Gagne)
  ELSE IF home >= 35 /\ draw >= 35 THEN Pred(P1X, DC \o homeName)
  ELSE IF away >= 35 /\ draw >= 35 THEN Pred(PX2, DC \o awayName)
  ELSE IF draw >= 40 THEN Pred(PX, MatchNulProbable)
  ELSE IF home > away THEN Pred(P1X, DC \o homeName)
  ELSE Pred(PX2, DC \o awayName)

(* C1: on every well-formed triple and every pair of team names,           *)
(* determinePrediction returns the outcome and text of the ordered table   *)
(* of rules 1..6, first match wins.                                        *)
C1_FirstMatchWins ==
  (IsCall("determinePrediction") /\ WellFormedCall /\ NamedCall)
    => ret.value = RefPrediction(HomeP, DrawP, AwayP, args[4].s, args[5].s)

(* rules 3 and 4 both hold and the outcome is that of rule 3 *)
C1_Witness ==
  /\ IsCall("determinePrediction") /\ WellFormedCall /\ NamedCall
  /\ HomeP >= 35 /\ DrawP >= 35 /\ AwayP >= 35
  /\ ret.value.prediction = P1X

(* C2: home >= 45 and away <= 10 yield outcome 1 with text                 *)
(* "<home name> gagne", whatever the draw percentage and the names.        *)
C2_HomeFavourite ==
  (IsCall("determinePrediction") /\ WellFormedCall /\ NamedCall
     /\ HomeP >= 45 /\ AwayP <= 10)
    => ret.value = Pred(P1, args[4].s \o Gagne)

C2_Witness ==
  /\ IsCall("determinePrediction") /\ WellFormedCall /\ NamedCall
  /\ HomeP = 45 /\ AwayP = 10 /\ DrawP = 45
  /\ ret.value.prediction = P1

(* the arguments (homePct, awayPct, drawPct) of the example of C3 *)
ArsenalTriple ==
  <<Str(<<"5", "0", "%">>), Str(<<"2", "0", "%">>), Str(<<"3", "0", "%">>)>>

ArsenalCall == ArsenalTriple \o <<Str(Arsenal), Str(Chelsea)>>

(* C3 as stated: home="50%", draw="30%", away="20%", "Arsenal"/"Chelsea"   *)
(* give outcome 1, text "Arsenal gagne", and confidence tier 4.            *)
C3_ArsenalExample ==
  /\ (IsCall("determinePrediction") /\ args = ArsenalCall)
       => ret.value = Pred(P1, <<"A", "r", "s", "e", "n", "a", "l", " ", "g", "a", "g", "n", "e">>)
  /\ (IsCall("getConfidence") /\ args = ArsenalTriple) => ret.value = IntNum(4)

(* C3 amended: away = 20 is above the 10 of rule 1, no rule of 1..5        *)
(* matches, and home > away gives outcome 1X, text "DC Arsenal"; the       *)
(* confidence tier is 4.                                                   *)
C3_ArsenalExampleAmended ==
  /\ (IsCall("determinePrediction") /\ args = ArsenalCall)
       => ret.value = Pred(P1X, <<"D", "C", " ", "A", "r", "s", "e", "n", "a", "l">>)
  /\ (IsCall("getConfidence") /\ args = ArsenalTriple) => ret.value = IntNum(4)

C3_Witness ==
  /\ IsCall("determinePrediction") /\ args = ArsenalCall
  /\ ret.value.prediction = P1X

(* a percentage string with no digit in it, such as "abc%" *)
NonNumericPct(v) == IsString(v) /\ v.s # <<>> /\ \A i \in DOMAIN v.s : v.s[i] \notin Digits

(* C4: a percentage string with non-numeric content yields the default     *)
(* result, outcome X with text "Match Nul".                                *)
C4_MalformedYieldsDefault ==
  (IsCall("determinePrediction") /\ \E i \in 1..3 : NonNumericPct(args[i]))
    => ret = Return(Pred(PX, MatchNul))

(* C5: with away >= 45 and home <= 10, a home name containing a big-club   *)
(* name yields 1X "DC <home name>", any other home name yields             *)
(* 2 "<away name> gagne".                                                  *)
C5_BigClubOverride ==
  (IsCall("determinePrediction") /\ WellFormedCall /\ NamedCall
     /\ AwayP >= 45 /\ HomeP <= 10)
    => ret.value = IF ContainsBigClub(args[4].s)
                     THEN Pred(P1X, DC \o args[4].s)
                     ELSE Pred(P2, args[5].s \o Gagne)

(* a home name that contains a big-club name without being equal to one *)
C5_Witness ==
  /\ IsCall("determinePrediction") /\ WellFormedCall /\ NamedCall
  /\ AwayP >= 45 /\ HomeP <= 10
  /\ args[4].s = AlAhly \o <<" ", "S", "C">>
  /\ ret.value.prediction = P1X

(* C6: none of the five sub-rules throws, whatever its input. *)
C6_NeverThrows == pc = "returned" => ~ret.thrown

(* "<h>-<a>" for one-digit goals *)
Score(h, a) == Str(<<DigitChar(h), "-", DigitChar(a)>>)

(* C7: the score string has a home component in 0..4 and an away component *)
(* in 0..3, for any input.                                                 *)
C7_ScoreInRange ==
  IsCall("determineExactScore")
    => \E h \in 0..4, a \in 0..3 : ret.value = Score(h, a)

Max3(a, b, c) ==
  IF a >= b /\ a >= c THEN a ELSE IF b >= c THEN b ELSE c

(* C8: the tier is 4 when the largest percentage is >= 50, 3 when it is in *)
(* 45..49, 2 below; it is never outside {2, 3, 4}.                         *)
C8_ConfidenceTier ==
  IsCall("getConfidence")
    => /\ ret.value \in {IntNum(2), IntNum(3), IntNum(4)}
       /\ WellFormedCall =>
            LET m == Max3(HomeP, AwayP, DrawP)
            IN  ret.value = IntNum(IF m >= 50 THEN 4 ELSE IF m >= 45 THEN 3 ELSE 2)

C8_Witness ==
  /\ IsCall("getConfidence") /\ WellFormedCall
  /\ Max3(HomeP, AwayP, DrawP) = 45
  /\ ret.value = IntNum(3)

(* the decimal strings among the goals averages *)
DecimalAvg == {AvgStr(neg, k, f) : neg \in BOOLEAN, k \in 0..MaxAvg, f \in {0, 4, 5, 9}}

(* a call of determineExactScore whose two scoring averages are decimals *)
NumericScoreCall ==
  /\ IsCall("determineExactScore")
  /\ GetPath(args[2], AvgPath("home", "for", "home")) \in DecimalAvg
  /\ GetPath(args[2], AvgPath("away", "for", "away")) \in DecimalAvg

(* C9: for outcome 2 or X2 the score has away goals >= home goals + 1      *)
(* (stated here for decimal averages, a case of the claim).                *)
C9_AwayAhead ==
  (NumericScoreCall /\ args[1] \in {Str(P2), Str(PX2)})
    => \E h \in 0..9, a \in 0..9 : ret.value = Score(h, a) /\ a >= h + 1

(* C10: for outcome X the score has away goals equal to home goals         *)
(* (stated here for decimal averages, a case of the claim).                *)
C10_DrawLevel ==
  (NumericScoreCall /\ args[1] = Str(PX))
    => \E h \in 0..9 : ret.value = Score(h, h)

(* C11: for outcome 1 or 1X the score has home goals >= away goals + 1,    *)
(* for every value of the two scoring averages.                            *)
C11_HomeAhead ==
  (IsCall("determineExactScore") /\ args[1] \in {Str(<<"1">>), Str(<<"1", "X">>)})
    => \E h \in 0..9, a \in 0..9 : ret.value = Score(h, a) /\ h >= a + 1

(* containment of a text in a goal-estimate or advice text, by position *)
HasText(v, sub) ==
  /\ IsString(v)
  /\ \E i \in 1..Len(v.s) : \E j \in i..Len(v.s) : SubSeq(v.s, i, j) = sub

(* a goal-estimate text that is absent or empty *)
AbsentText(v) == v \in {Undefined, Null, Str(<<>>)}

GoalsHomeArg == args[1]

GoalsAwayArg == args[2]

AdviceArg == args[3]

EitherGoalText(sub) == HasText(GoalsHomeArg, sub) \/ HasText(GoalsAwayArg, sub)

(* C12 as stated: "Over 2.5" whenever either side's goal text contains     *)
(* "3.5", also when the other side's text is absent; otherwise             *)
(* "Under 3.5" when either contains "2.5"; both before any advice.         *)
C12_GoalTextFirst ==
  IsCall("determineOverUnder")
    => /\ EitherGoalText(<<"3", ".", "5">>)
            => ret = Return(Str(<<"O", "v", "e", "r", " ", "2", ".", "5">>))
       /\ (~EitherGoalText(<<"3", ".", "5">>) /\ EitherGoalText(<<"2", ".", "5">>))
            => ret = Return(Str(<<"U", "n", "d", "e", "r", " ", "3", ".", "5">>))

(* C12 amended: the goal texts decide only when both sides' texts are      *)
(* present; then "3.5" on either side gives "Over 2.5", otherwise "2.5" on *)
(* either side gives "Under 3.5", whatever the advice.  With one side      *)
(* absent and no advice the result is the default "Under 2.5".             *)
C12_GoalTextFirstAmended ==
  IsCall("determineOverUnder")
    => /\ (IsString(GoalsHomeArg) /\ IsString(GoalsAwayArg)
           /\ ~AbsentText(GoalsHomeArg) /\ ~AbsentText(GoalsAwayArg))
            => /\ EitherGoalText(<<"3", ".", "5">>)
                    => ret = Return(Str(<<"O", "v", "e", "r", " ", "2", ".", "5">>))
               /\ (~EitherGoalText(<<"3", ".", "5">>) /\ EitherGoalText(<<"2", ".", "5">>))
                    => ret = Return(Str(<<"U", "n", "d", "e", "r", " ", "3", ".", "5">>))
       /\ ((AbsentText(GoalsHomeArg) \/ AbsentText(GoalsAwayArg)) /\ AbsentText(AdviceArg))
            => ret = Return(Str(<<"U", "n", "d", "e", "r", " ", "2", ".", "5">>))

(* "3.5" on the away side only, under an advice that says "-2.5" *)
C12_Witness ==
  /\ IsCall("determineOverUnder")
  /\ GoalsHomeArg = Str(<<"-", "1", ".", "5">>)
  /\ GoalsAwayArg = Str(<<"-", "3", ".", "5">>)
  /\ AdviceArg = Str(<<"X", " ", "-", "2", ".", "5">>)
  /\ ret = Return(Str(<<"O", "v", "e", "r", " ", "2", ".", "5">>))

(* the advice decision of the over/under rule *)
RefAdviceLabel(advice) ==
  IF HasText(advice, <<"+", "2", ".", "5">>) \/ HasText(advice, <<"+", "3", ".", "5">>)
    THEN <<"O", "v", "e", "r", " ", "2", ".", "5">>
  ELSE <<"U", "n", "d", "e", "r", " ", "2", ".", "5">>

(* C13: when the goal texts are absent or match nothing the advice         *)
(* decides ("+2.5" or "+3.5": "Over 2.5"; otherwise "Under 2.5"), and      *)
(* every call returns one of the three labels.                             *)
C13_AdviceThenDefault ==
  IsCall("determineOverUnder")
    => /\ ~ret.thrown
       /\ ret.value \in { Str(<<"O", "v", "e", "r", " ", "2", ".", "5">>),
                          Str(<<"U", "n", "d", "e", "r", " ", "3", ".", "5">>),
                          Str(<<"U", "n", "d", "e", "r", " ", "2", ".", "5">>) }
       /\ (/\ IsString(GoalsHomeArg) \/ AbsentText(GoalsHomeArg)
           /\ IsString(GoalsAwayArg) \/ AbsentText(GoalsAwayArg)
           /\ ~EitherGoalText(<<"3", ".", "5">>) /\ ~EitherGoalText(<<"2", ".", "5">>))
            => ret.value = Str(RefAdviceLabel(AdviceArg))

(* the leaf of the teams argument of determineBTTS *)
BttsLeaf(side, dir) == GetPath(args[1], AvgPath(side, dir, "total"))

(* the one-decimal averages of the BTTS inputs, in tenths; missing is 0 *)
Tenths(v) ==
  IF IsString(v) /\ Len(v.s) = 3 /\ v.s[1] \in Digits /\ v.s[2] = "." /\ v.s[3] \in Digits
    THEN 10 * DigitVal(v.s[1]) + DigitVal(v.s[3])
  ELSE 0

DecimalOrMissing(v) == v = Undefined \/ Tenths(v) > 0

(* the BTTS rule over tenths *)
RefBTTS(hf, af, ha, aa) ==
  IF hf > 8 /\ af > 8 /\ ha > 8 /\ aa > 8 THEN <<"O", "u", "i">>
  ELSE IF ha < 5 \/ aa < 5 THEN <<"N", "o", "n">>
  ELSE IF hf > 10 /\ af > 10 THEN <<"O", "u", "i">>
  ELSE <<"N", "o", "n">>

(* C14: "Oui" when all four averages exceed 0.8; otherwise "Non" when      *)
(* either goals-against average is below 0.5; otherwise "Oui" when both    *)
(* goals-for averages exceed 1.0; otherwise "Non".  A missing average is   *)
(* 0, and the result is always "Oui" or "Non".                             *)
C14_BTTSRule ==
  IsCall("determineBTTS")
    => /\ ret.value \in {Str(<<"O", "u", "i">>), Str(<<"N", "o", "n">>)}
       /\ (\A side \in {"home", "away"}, dir \in {"for", "against"} :
              DecimalOrMissing(BttsLeaf(side, dir)))
            => ret.value = Str(RefBTTS(Tenths(BttsLeaf("home", "for")),
                                       Tenths(BttsLeaf("away", "for")),
                                       Tenths(BttsLeaf("home", "against")),
                                       Tenths(BttsLeaf("away", "against"))))

(* all four averages just above 0.8, neither goals-for above 1.0 *)
C14_Witness ==
  /\ IsCall("determineBTTS")
  /\ \A side \in {"home", "away"}, dir \in {"for", "against"} :
       BttsLeaf(side, dir) = Str(<<"0", ".", "9">>)
  /\ ret.value = Str(<<"O", "u", "i">>)

(* C16: the outcome code is one of 1, 2, X, 1X, X2 for every input,        *)
(* malformed percentages and missing names included.                       *)
C16_OutcomeCode ==
  IsCall("determinePrediction")
    => ret.value.prediction \in {<<"1">>, <<"2">>, <<"X">>, <<"1", "X">>, <<"X", "2">>}

(* a malformed percentage and a missing home name *)
C16_Witness ==
  /\ IsCall("determinePrediction")
  /\ args[1] = Str(<<"a", "b", "c", "%">>)
  /\ args[4] = Undefined
  /\ ret.value.prediction = <<"X">>

(* the two scoring averages of a call of determineExactScore *)
HomeAvgArg == GetPath(args[2], AvgPath("home", "for", "home"))

AwayAvgArg == GetPath(args[2], AvgPath("away", "for", "away"))

(* an average that is present and numerically zero *)
ZeroAvg == {IntNum(0), Str(<<"0", ".", "0">>)}

(* C17: with both averages unavailable the defaults 1.2 and 0.9 give "2-1" *)
(* for 1 and 1X, "1-2" for 2 and X2, "1-1" for X; an average that is       *)
(* present and numerically zero is used as 0, not replaced by the default. *)
C17_DefaultsAndZero ==
  IsCall("determineExactScore")
    => /\ (HomeAvgArg \in {Undefined, Null} /\ AwayAvgArg \in {Undefined, Null})
            => /\ args[1] \in {Str(<<"1">>), Str(<<"1", "X">>)} => ret.value = Score(2, 1)
               /\ args[1] \in {Str(<<"2">>), Str(<<"X", "2">>)} => ret.value = Score(1, 2)
               /\ args[1] = Str(<<"X">>) => ret.value = Score(1, 1)
       /\ (HomeAvgArg \in ZeroAvg /\ AwayAvgArg \in ZeroAvg /\ args[1] = Str(<<"X">>))
            => ret.value = Score(0, 0)

---------------------------------------------------------------------------
(* Properties of fetchPrediction and the handler *)

(* the calls of fetchPrediction that have returned *)
Returned == {i \in DOMAIN fpc : fpc[i] = "done"}

(* C15: every non-null record returned by fetchPrediction, in each of the  *)
(* serverless modules, carries the six fields prediction, prediction_text, *)
(* over_under, btts, exact_score and confidence.                           *)
C15_SixFields ==
  \A i \in Returned :
    results[i].t = "object"
      => {"prediction", "prediction_text", "over_under", "btts", "exact_score",
          "confidence"} \subseteq DOMAIN results[i].f

(* the handler has answered 200 with a body of predictions *)
Answered200 ==
  hpc = "done" /\ response.statusCode = 200 /\ response.body.t = "object"

AnsweredPredictions == response.body.f.predictions.a

(* C18: the handler sends at most 25 prediction requests, and the          *)
(* total_matches of its answer is the length of predictions, at most 25.   *)
C18_AtMost25 ==
  /\ requests <= 25
  /\ Answered200
       => /\ response.body.f.total_matches = IntNum(Len(AnsweredPredictions))
          /\ Len(AnsweredPredictions) <= 25

(* 27 important fixtures, all classified: 25 requests, 25 predictions *)
C18_Witness ==
  /\ Answered200
  /\ Len(upstream.kinds) = 27
  /\ \A i \in DOMAIN upstream.kinds : upstream.kinds[i] = 1
  /\ requests = 25
  /\ response.body.f.total_matches = IntNum(25)

(* the prediction request for a fixture of this kind fails: network error, *)
(* unparsable body, empty or missing upstream response, or an advice that  *)
(* is not a text, on which the classification throws                       *)
RequestFails(kind) ==
  \/ kind.net = "reject"
  \/ kind.body.thrown
  \/ kind.body.value.t = "null"
  \/ kind.body.value.f.response.a = <<>>
  \/ LET advice == GetPath(kind.body.value.f.response.a[1], <<"predictions", "advice">>)
     IN  advice.t \in {"number", "object"} /\ advice # IntNum(0)

(* the selected fixtures whose request does not fail, in request order *)
Survivors ==
  SelectSeq(limitedFixtures, LAMBDA fix : ~RequestFails(KindOfId(fix.id.n)))

(* C19: once the fixtures are selected the handler answers 200, and its    *)
(* predictions are one record for each selected fixture whose request did  *)
(* not fail: the failing ones, and only they, are dropped, whichever       *)
(* subset of the requests fails.                                           *)
C19_FailuresDropped ==
  (hpc = "done" /\ requests > 0)
    => /\ Answered200
       /\ Len(AnsweredPredictions) = Len(Survivors)
       /\ {p.f.id : p \in {AnsweredPredictions[i] : i \in DOMAIN AnsweredPredictions}}
            = {Survivors[i].id : i \in DOMAIN Survivors}

(* three selected fixtures: a rejected fetch, a classified one, an advice  *)
(* on which the classification throws                                      *)
C19_Witness ==
  /\ hpc = "done"
  /\ upstream.kinds = <<4, 1, 6>>
  /\ requests = 3
  /\ Len(AnsweredPredictions) = 1

(* the record of classifying the i-th selected fixture alone *)
RecordAlone(i) ==
  LET kind == KindOfId(limitedFixtures[i].id.n)
  IN  IF kind.net = "reject" THEN Null
      ELSE AfterJson(variant, limitedFixtures[i], kind.body)

(* C20: whatever else is in flight, each call of fetchPrediction returns   *)
(* the record of classifying its fixture alone.                            *)
C20_Independent ==
  \A i \in Returned : results[i] = RecordAlone(i)

(* the second call has returned its record while the first is suspended    *)
(* between its two awaits, on a different payload                          *)
C20_Witness ==
  /\ hpc = "predictions"
  /\ upstream.kinds = <<1, 2>>
  /\ fpc = <<"json", "done">>
  /\ results[2].t = "object"

---------------------------------------------------------------------------
(* Properties: rules 5 and 6, the two modules, the order of the answer,    *)
(* the date check                                                          *)

(* C21: over well-formed triples, determinePrediction returns X with       *)
(* "Match Nul probable" exactly when draw >= 40, home < 35 and away < 35;  *)
(* with draw >= 40 and home >= 35 or away >= 35 the outcome is not X.      *)
C21_Rule5Exact ==
  (IsCall("determinePrediction") /\ WellFormedCall /\ NamedCall)
    => /\ (ret.value = [prediction |-> <<"X">>,
                        text |-> <<"M", "a", "t", "c", "h", " ", "N", "u", "l", " ",
                                   "p", "r", "o", "b", "a", "b", "l", "e">>])
            <=> (DrawP >= 40 /\ HomeP < 35 /\ AwayP < 35)
       /\ (DrawP >= 40 /\ (HomeP >= 35 \/ AwayP >= 35))
            => ret.value.prediction # <<"X">>

(* draw exactly 40 with home and away just below 35 *)
C21_Witness ==
  /\ IsCall("determinePrediction") /\ WellFormedCall /\ NamedCall
  /\ DrawP = 40 /\ HomeP = 34 /\ AwayP = 34
  /\ ret.value.prediction = <<"X">>

(* none of rules 1 to 5 matches the triple *)
NoRule1To5(home, draw, away) ==
  /\ ~(home >= 45 /\ away <= 10)
  /\ ~(away >= 45 /\ home <= 10)
  /\ ~(home >= 35 /\ draw >= 35)
  /\ ~(away >= 35 /\ draw >= 35)
  /\ ~(draw >= 40)

(* the triple fetchPrediction substitutes for missing percentages *)
SubstituteTriple == \A i \in 1..3 : args[i] = Default33

(* C22: when none of rules 1 to 5 matches, the outcome is 1X "DC <home>"   *)
(* if home > away and X2 "DC <away>" otherwise, so level percentages give  *)
(* X2; the substitute triple "33%"/"33%"/"33%" gives X2 and tier 2.        *)
C22_Fallback ==
  /\ (IsCall("determinePrediction") /\ WellFormedCall /\ NamedCall
        /\ NoRule1To5(HomeP, DrawP, AwayP))
       => ret.value = IF HomeP > AwayP
                        THEN [prediction |-> <<"1", "X">>, text |-> <<"D", "C", " ">> \o args[4].s]
                      ELSE [prediction |-> <<"X", "2">>, text |-> <<"D", "C", " ">> \o args[5].s]
  /\ (IsCall("determinePrediction") /\ SubstituteTriple)
       => ret.value.prediction = <<"X", "2">>
  /\ (IsCall("getConfidence") /\ SubstituteTriple) => ret.value = IntNum(2)

C22_Witness ==
  /\ IsCall("determinePrediction")
  /\ SubstituteTriple
  /\ NamedCall
  /\ ret.value = [prediction |-> <<"X", "2">>, text |-> <<"D", "C", " ">> \o args[5].s]

(* the other serverless module *)
OtherVariant == IF variant = "esm" THEN "cjs" ELSE "esm"

(* the record module v returns for the i-th selected fixture *)
RecordUnder(v, i) ==
  LET kind == KindOfId(limitedFixtures[i].id.n)
  IN  IF kind.net = "reject" THEN Null ELSE AfterJson(v, limitedFixtures[i], kind.body)

(* the predictions module v answers for the selected fixtures *)
PredictionsUnder(v) ==
  LET sorted == SortByTime(FilterNonNull([i \in DOMAIN limitedFixtures |-> RecordUnder(v, i)]))
  IN  [i \in DOMAIN sorted |-> Stringify(sorted[i])]

(* a record without the fields only one module has *)
SharedFields(p) == [k \in DOMAIN p.f \ {"btts", "exact_score"} |-> p.f[k]]

SharedOf(ps) == [i \in DOMAIN ps |-> SharedFields(ps[i])]

Minutes(t) ==
  600 * DigitVal(t[1]) + 60 * DigitVal(t[2]) + 10 * DigitVal(t[4]) + DigitVal(t[5])

(* the surviving fixtures that come before fix in the answer: an earlier   *)
(* kickoff, or the same kickoff and earlier in the upstream list           *)
Before(fix) ==
  {j \in DOMAIN Survivors :
     \/ Minutes(Survivors[j].time.s) < Minutes(fix.time.s)
     \/ /\ Minutes(Survivors[j].time.s) = Minutes(fix.time.s)
        /\ Survivors[j].id.n < fix.id.n}

(* C28: the predictions of the answer are in non-decreasing order of       *)
(* kickoff time, fixtures of equal time in upstream order, whatever the    *)
(* order in which the requests completed.                                  *)
C28_SortedStable ==
  (hpc = "done" /\ requests > 0)
    => /\ Len(AnsweredPredictions) = Len(Survivors)
       /\ \A j \in DOMAIN Survivors :
            AnsweredPredictions[Cardinality(Before(Survivors[j])) + 1].f.id = Survivors[j].id

(* 15:00, 12:30, 15:00 upstream: answered as second, first, third *)
C28_Witness ==
  /\ hpc = "done"
  /\ upstream.kinds = <<1, 2, 1>>
  /\ Len(AnsweredPredictions) = 3
  /\ AnsweredPredictions[1].f.id = IntNum(2)
  /\ AnsweredPredictions[2].f.id = IntNum(1)
  /\ AnsweredPredictions[3].f.id = IntNum(3)

(* the part of the path after its last "/" *)
PathTail ==
  LET path == event.path.s
      cut  == {i \in DOMAIN path : path[i] = "/"}
      from == IF cut = {} THEN 0 ELSE CHOOSE i \in cut : \A j \in cut : j <= i
  IN  SubSeq(path, from + 1, Len(path))

(* YYYY-MM-DD: four digits, dash, two digits, dash, two digits *)
IsDateText(t) ==
  /\ Len(t) = 10
  /\ \A i \in 1..10 :
       IF i \in {5, 8} THEN t[i] = "-"
       ELSE t[i] \in {"0", "1", "2", "3", "4", "5", "6", "7", "8", "9"}

(* a request with a path that is not an OPTIONS request *)
PathRequest ==
  event.httpMethod # Str(<<"O", "P", "T", "I", "O", "N", "S">>) /\ IsString(event.path)

(* C29: a non-OPTIONS request whose last path segment is not YYYY-MM-DD is *)
(* answered 400 with an error body and nothing is requested upstream for   *)
(* it; a request whose segment has the format is never answered 400.       *)
C29_DateCheck ==
  PathRequest
    => /\ ~IsDateText(PathTail)
            => /\ hpc \in {"start", "done"}
               /\ upstream = NoUpstream
               /\ requests = 0
               /\ hpc = "done"
                    => response.statusCode = 400 /\ "error" \in DOMAIN response.body.f
       /\ IsDateText(PathTail) => response.statusCode # 400

(* a month of one digit is refused *)
C29_Witness ==
  /\ PathRequest
  /\ PathTail = <<"2", "0", "2", "6", "-", "1", "-", "1", "5">>
  /\ hpc = "done"
  /\ response.statusCode = 400

(* a verifyPin that authenticates has run since the last logout *)
Initialised == state.isAuthenticated \/ activeScreen = "main" \/ sessionInits > 0

(* C24: the page is authenticated, on its main screen or initialised only  *)
(* if verifyPin ran with the buffer equal to the four characters 1991,     *)
(* whatever the keys, timers and logouts before.                           *)
C24_PinSafety == Initialised => sessionVerified

(* logged in a second time, after a logout *)
C24_Witness ==
  /\ state.isAuthenticated
  /\ sessionVerified
  /\ dateListeners = 2
  /\ sessionInits = 1

(* C25: between a login and the next logout initApp has run exactly once.  *)
C25_InitOnce == state.isAuthenticated => sessionInits = 1

(* the buffer is full when a step starts and was not emptied by it *)
FullBuffer == Len(currentPin) = 4

VerifyByTimer == timers' < timers

LogoutStep == state.isAuthenticated /\ ~state'.isAuthenticated

(* C27: the buffer never holds more than 4 characters; a step from a full  *)
(* buffer leaves it as it is or empties it; a timer's verifyPin on a       *)
(* buffer that is not the PIN empties it and leaves the page               *)
(* unauthenticated; a logout empties it and unauthenticates.               *)
C27_Buffer ==
  /\ [](Len(currentPin) <= 4)
  /\ [][/\ FullBuffer => currentPin' \in {currentPin, <<>>}
        /\ (VerifyByTimer /\ currentPin # CORRECT_PIN)
             => currentPin' = <<>> /\ ~state'.isAuthenticated
        /\ LogoutStep => currentPin' = <<>> /\ activeScreen' = "login"
        /\ (~state.isAuthenticated /\ state'.isAuthenticated)
             => currentPin = CORRECT_PIN]_vars

(* four wrong digits entered and their verification pending *)
C27_Witness ==
  /\ FullBuffer
  /\ currentPin # CORRECT_PIN
  /\ timers > 0
  /\ ~state.isAuthenticated

(* every request has settled *)
NothingPending == InFlight(loads) = 0

(* C26: once every request has settled, the predictions, combos and        *)
(* matches the API returned are those of the date selected last.           *)
C26_LatestDate ==
  NothingPending
    => \A field \in {"predictions", "combos", "matches"} :
         state[field].src = "api" => state[field].date = state.currentDate

(* a call of fetchPredictions is between its start and its settling *)
InFlightCall == fetching.stage # "none"

(* C30: loading is true exactly while a call of fetchPredictions has not   *)
(* settled; after a failure predictions is empty and error is not null;    *)
(* after a success error is null and predictions and totalMatches are      *)
(* those of the response.                                                  *)
C30_Loading ==
  /\ component.loading <=> InFlightCall
  /\ settled.outcome = "failure"
       => component.predictions = Arr(<<>>) /\ component.error # Null
  /\ settled.outcome = "success"
       => /\ component.error = Null
          /\ component.predictions = Get(settled.data, "predictions")
          /\ component.totalMatches = Get(settled.data, "total_matches")

(* a failure after an earlier success: the list is emptied, the count of   *)
(* the earlier response stays                                              *)
C30_Witness ==
  /\ settled.outcome = "failure"
  /\ ~component.loading
  /\ component.error = NotOkMessage
  /\ component.totalMatches = IntNum(2)

====
